---- MODULE Spec2Model ----
(***************************************************************************)
(* Model of internal/transaction/transaction.go: the Bitcoin transaction   *)
(* decoder (readVarInt, ParseHex, Parse, parseTxIn, parseTxOut,            *)
(* parseWitness).                                                          *)
(*                                                                         *)
(* Representation of Go values:                                            *)
(*   byte      a number in 0..255                                          *)
(*   []byte    a sequence of bytes; Go index k is TLA+ index k+1           *)
(*   uint32    <<l0, l1>>, two 16-bit limbs, least significant first       *)
(*   uint64    <<l0, l1, l2, l3>>, four 16-bit limbs, least significant    *)
(*             first (TLC's integers are 32 bits wide, a uint64 is not)    *)
(*   int       a 64-bit two's complement number, held as a uint64 pattern  *)
(*             when it comes from a conversion int(x); the cursor itself   *)
(*             stays within 0..len(data) and is a plain number             *)
(*   error     [fmt, arg]: the chain of format strings the code builds     *)
(*             the message from (outermost first, %w wrapping appends the  *)
(*             inner chain) and the %d argument (-1 when there is none);   *)
(*             NoErr is nil                                                *)
(***************************************************************************)
EXTENDS Integers, Sequences, FiniteSets, TLC

VARIABLES
    entry,      \* which exported function the caller invoked: "Parse", "ParseHex", "readVarInt"
    hexStr,     \* ParseHex's argument: a sequence of characters
    data,       \* the byte buffer Parse works on
    st,         \* the activation record of Parse (pc, offset, tx, loop counters, ...)
    vi,         \* the result of the last direct readVarInt call
    peer,       \* a second goroutine running Parse: its buffer and activation record
    shown,      \* a TxIn and what GetTxIDHex returned for it
    farmer,     \* a farming.Farmer shared by goroutines: mu, config, onboarded
    calls,      \* per goroutine, its call of Onboard or UpdateConfig on the Farmer
    wins        \* how many Onboard calls have returned nil

vars == <<entry, hexStr, data, st, vi, peer, shown, farmer, calls, wins>>

\* no Farmer is in play
NoFarmer == [mu |-> 0, config |-> <<>>, onboarded |-> FALSE]
NoCalls == <<>>

---------------------------------------------------------------------------
(* Fixed-width unsigned integers as 16-bit limbs *)

Limb == 256 * 256

U64Zero == <<0, 0, 0, 0>>

\* uint64(x) for a number x that TLC can hold (0 <= x < 2^31)
U64FromNat(x) == <<x % Limb, x \div Limb, 0, 0>>

\* the value fits a non-negative TLC integer
U64IsSmall(v) == v[3] = 0 /\ v[4] = 0 /\ v[2] < 32768

\* the number a small uint64 stands for
U64ToNat(v) == v[1] + Limb * v[2]

\* a < b on uint64
U64Lt(a, b) ==
    \/ a[4] < b[4]
    \/ a[4] = b[4] /\ a[3] < b[3]
    \/ a[4] = b[4] /\ a[3] = b[3] /\ a[2] < b[2]
    \/ a[4] = b[4] /\ a[3] = b[3] /\ a[2] = b[2] /\ a[1] < b[1]

\* a + b modulo 2^64 (Go's wrapping addition on 64-bit words)
U64Add(a, b) ==
    LET s1 == a[1] + b[1]
        s2 == a[2] + b[2] + (s1 \div Limb)
        s3 == a[3] + b[3] + (s2 \div Limb)
        s4 == a[4] + b[4] + (s3 \div Limb)
    IN  <<s1 % Limb, s2 % Limb, s3 % Limb, s4 % Limb>>

\* floor(v / d) for a small divisor d (schoolbook division, most significant limb first)
U64DivSmall(v, d) ==
    LET q4 == v[4] \div d
        r4 == v[4] % d
        q3 == (r4 * Limb + v[3]) \div d
        r3 == (r4 * Limb + v[3]) % d
        q2 == (r3 * Limb + v[2]) \div d
        r2 == (r3 * Limb + v[2]) % d
        q1 == (r2 * Limb + v[1]) \div d
    IN  <<q1, q2, q3, q4>>

\* the sign bit of the 64-bit pattern: int(v) < 0
Int64IsNeg(v) == v[4] >= 32768

\* int(v) > n for a 64-bit pattern v read as a signed int and a small n >= 0
Int64GtNat(v, n) ==
    /\ ~Int64IsNeg(v)
    /\ (U64IsSmall(v) => U64ToNat(v) > n)

---------------------------------------------------------------------------
(* encoding/binary.LittleEndian *)

\* LEUint16 reading the bytes in network order
LEUint16BigEndian(b) == 256 * b[1] + b[2]

LEUint16(b) == b[1] + 256 * b[2]

LEUint32(b) == <<LEUint16(SubSeq(b, 1, 2)), LEUint16(SubSeq(b, 3, 4))>>

LEUint64(b) ==
    <<LEUint16(SubSeq(b, 1, 2)), LEUint16(SubSeq(b, 3, 4)),
      LEUint16(SubSeq(b, 5, 6)), LEUint16(SubSeq(b, 7, 8))>>

\* int32(u) of a uint32: the two's complement reading
Int32Of(u) == IF u[2] >= 32768 THEN (u[2] - Limb) * Limb + u[1] ELSE u[2] * Limb + u[1]

\* Go's data[lo:hi]
Slice(d, lo, hi) == SubSeq(d, lo + 1, hi)

NoErr == [fmt |-> <<>>, arg |-> -1]

\* errors.New(text)
ErrNew(text) == [fmt |-> <<text>>, arg |-> -1]

\* fmt.Errorf(text + ": %w", inner)
ErrWrap(text, inner) == [fmt |-> <<text>> \o inner.fmt, arg |-> inner.arg]

\* fmt.Errorf(text with one %d, k)
ErrNewf(text, k) == [fmt |-> <<text>>, arg |-> k]

\* fmt.Errorf(text with one %d + ": %w", k, inner)
ErrWrapf(text, k, inner) == [fmt |-> <<text>> \o inner.fmt, arg |-> k]

---------------------------------------------------------------------------
(* readVarInt *)

\* readVarInt with the multi-byte payloads read most significant byte first
readVarIntBigEndian(d, offset) ==
    IF offset >= Len(d)
    THEN [value |-> U64Zero, n |-> 0, err |-> ErrNew("unexpected end of data")]
    ELSE LET first == d[offset + 1] IN
         CASE first < 253 ->
                [value |-> U64FromNat(first), n |-> 1, err |-> NoErr]
           [] first = 253 ->
                IF offset + 3 > Len(d)
                THEN [value |-> U64Zero, n |-> 0, err |-> ErrNew("unexpected end of data for varint16")]
                ELSE [value |-> <<d[offset + 3] + 256 * d[offset + 2], 0, 0, 0>>,
                      n |-> 3, err |-> NoErr]
           [] first = 254 ->
                IF offset + 5 > Len(d)
                THEN [value |-> U64Zero, n |-> 0, err |-> ErrNew("unexpected end of data for varint32")]
                ELSE [value |-> <<d[offset + 5] + 256 * d[offset + 4],
                                  d[offset + 3] + 256 * d[offset + 2], 0, 0>>,
                      n |-> 5, err |-> NoErr]
           [] OTHER ->
                IF offset + 9 > Len(d)
                THEN [value |-> U64Zero, n |-> 0, err |-> ErrNew("unexpected end of data for varint64")]
                ELSE [value |-> <<d[offset + 9] + 256 * d[offset + 8],
                                  d[offset + 7] + 256 * d[offset + 6],
                                  d[offset + 5] + 256 * d[offset + 4],
                                  d[offset + 3] + 256 * d[offset + 2]>>,
                      n |-> 9, err |-> NoErr]

\* readVarInt with the payload checks off by one (>= for >)
readVarIntStrictBound(d, offset) ==
    IF offset >= Len(d)
    THEN [value |-> U64Zero, n |-> 0, err |-> ErrNew("unexpected end of data")]
    ELSE LET first == d[offset + 1] IN
         CASE first < 253 ->
                [value |-> U64FromNat(first), n |-> 1, err |-> NoErr]
           [] first = 253 ->
                IF offset + 3 >= Len(d)
                THEN [value |-> U64Zero, n |-> 0, err |-> ErrNew("unexpected end of data for varint16")]
                ELSE [value |-> <<LEUint16(Slice(d, offset + 1, offset + 3)), 0, 0, 0>>,
                      n |-> 3, err |-> NoErr]
           [] first = 254 ->
                IF offset + 5 >= Len(d)
                THEN [value |-> U64Zero, n |-> 0, err |-> ErrNew("unexpected end of data for varint32")]
                ELSE LET u == LEUint32(Slice(d, offset + 1, offset + 5))
                     IN  [value |-> <<u[1], u[2], 0, 0>>, n |-> 5, err |-> NoErr]
           [] OTHER ->
                IF offset + 9 >= Len(d)
                THEN [value |-> U64Zero, n |-> 0, err |-> ErrNew("unexpected end of data for varint64")]
                ELSE [value |-> LEUint64(Slice(d, offset + 1, offset + 9)),
                      n |-> 9, err |-> NoErr]

\* readVarInt(data, offset) (value, bytes consumed, error)
readVarInt(d, offset) ==
    IF offset >= Len(d)
    THEN [value |-> U64Zero, n |-> 0, err |-> ErrNew("unexpected end of data")]
    ELSE LET first == d[offset + 1] IN
         CASE first < 253 ->
                [value |-> U64FromNat(first), n |-> 1, err |-> NoErr]
           [] first = 253 ->
                IF offset + 3 > Len(d)
                THEN [value |-> U64Zero, n |-> 0, err |-> ErrNew("unexpected end of data for varint16")]
                ELSE [value |-> <<LEUint16(Slice(d, offset + 1, offset + 3)), 0, 0, 0>>,
                      n |-> 3, err |-> NoErr]
           [] first = 254 ->
                IF offset + 5 > Len(d)
                THEN [value |-> U64Zero, n |-> 0, err |-> ErrNew("unexpected end of data for varint32")]
                ELSE LET u == LEUint32(Slice(d, offset + 1, offset + 5))
                     IN  [value |-> <<u[1], u[2], 0, 0>>, n |-> 5, err |-> NoErr]
           [] OTHER ->
                IF offset + 9 > Len(d)
                THEN [value |-> U64Zero, n |-> 0, err |-> ErrNew("unexpected end of data for varint64")]
                ELSE [value |-> LEUint64(Slice(d, offset + 1, offset + 9)),
                      n |-> 9, err |-> NoErr]

---------------------------------------------------------------------------
(* The Go runtime's make([]T, n) for a uint64 n *)

PanicMakeSlice == "panic: runtime error: makeslice: len out of range"
PanicSliceBounds == "panic: runtime error: slice bounds out of range"
FatalOutOfMemory == "fatal error: runtime: out of memory"

\* the runtime's maxAlloc on a 64-bit build: 2^48 bytes
MaxAllocBytes == <<0, 0, 0, 1>>

\* makeslice panics ("len out of range") when int(n) < 0 or n * elemSize > maxAlloc
MakePanics(n, elemSize) ==
    \/ Int64IsNeg(n)
    \/ U64Lt(U64DivSmall(MaxAllocBytes, elemSize), n)

\* The outcomes of make([]T, n): "ok", the "panic" above, or, for a request the
\* runtime accepts but the machine may be unable to back (65536 elements or
\* more), either "ok" or the fatal "out of memory".
MakeOutcomes(n, elemSize) ==
    IF MakePanics(n, elemSize) THEN {"panic"}
    ELSE IF n[2] = 0 /\ n[3] = 0 /\ n[4] = 0 THEN {"ok"}
    ELSE {"ok", "oom"}

\* one recorded allocation: what was allocated, the requested length, the cursor
\* at that point and whether the runtime refused the length
MakeRec(what, n, offset) == [what |-> what, n |-> n, offset |-> offset]

\* A slice of records made with make([]T, n) and filled at increasing indices:
\* its length and the elements written so far (the rest are zero values).
MakeSlice(n) == [len |-> n, items |-> <<>>]

NilSlice == [len |-> U64Zero, items |-> <<>>]

\* s[i] = x
SliceSet(s, i, x) ==
    [s EXCEPT !.items = IF i = Len(@) THEN Append(@, x) ELSE [@ EXCEPT ![i + 1] = x]]

\* sizes of the element types on a 64-bit build
SizeofTxIn == 80
SizeofTxOut == 40
SizeofSlice == 24

---------------------------------------------------------------------------
(* parseTxIn, parseTxOut *)

TxIDLen == 32

ZeroTxIn ==
    [PreviousTxID |-> [k \in 1..TxIDLen |-> 0], PreviousOutIdx |-> <<0, 0>>,
     ScriptSigLength |-> U64Zero, ScriptSig |-> <<>>, Sequence |-> <<0, 0>>]

ZeroTxOut == [Value |-> U64Zero, ScriptPubKeyLen |-> U64Zero, ScriptPubKey |-> <<>>]

\* readSection with the copy left out: the slice is made and stays zeroed
readSectionNoCopy(d, offset, n, what) ==
    IF Int64GtNat(U64Add(U64FromNat(offset), n), Len(d))
    THEN [status |-> "short", bytes |-> <<>>, makes |-> <<>>]
    ELSE IF MakePanics(n, 1)
    THEN [status |-> PanicMakeSlice, bytes |-> <<>>, makes |-> <<MakeRec(what, n, offset)>>]
    ELSE IF ~U64IsSmall(n) \/ offset + U64ToNat(n) > Len(d)
    THEN [status |-> PanicSliceBounds, bytes |-> <<>>, makes |-> <<MakeRec(what, n, offset)>>]
    ELSE [status |-> "ok", bytes |-> [k \in 1..U64ToNat(n) |-> 0],
          makes |-> <<MakeRec(what, n, offset)>>]

\* readSection handing out data[offset:offset+int(n)] itself
readSectionView(d, offset, n, what) ==
    IF Int64GtNat(U64Add(U64FromNat(offset), n), Len(d))
    THEN [status |-> "short", bytes |-> <<>>, makes |-> <<>>]
    ELSE IF ~U64IsSmall(n) \/ offset + U64ToNat(n) > Len(d)
    THEN [status |-> PanicSliceBounds, bytes |-> <<>>, makes |-> <<>>]
    ELSE [status |-> "ok", bytes |-> Slice(d, offset, offset + U64ToNat(n)), makes |-> <<>>]

\* A length-prefixed byte section at `offset` (the cursor after the length
\* VarInt): the bounds check `offset+int(n) > len(data)`, then make([]byte, n)
\* and the copy of data[offset:offset+int(n)].
\* [status: "short" | "ok" | the panic, bytes, makes]
readSection(d, offset, n, what) ==
    IF Int64GtNat(U64Add(U64FromNat(offset), n), Len(d))
    THEN [status |-> "short", bytes |-> <<>>, makes |-> <<>>]
    ELSE IF MakePanics(n, 1)
    THEN [status |-> PanicMakeSlice, bytes |-> <<>>, makes |-> <<MakeRec(what, n, offset)>>]
    ELSE IF ~U64IsSmall(n) \/ offset + U64ToNat(n) > Len(d)
    THEN [status |-> PanicSliceBounds, bytes |-> <<>>, makes |-> <<MakeRec(what, n, offset)>>]
    ELSE [status |-> "ok", bytes |-> Slice(d, offset, offset + U64ToNat(n)),
          makes |-> <<MakeRec(what, n, offset)>>]

\* parseTxIn(data, offset) (TxIn, bytes consumed, error), plus the panic it
\* ended in ("" when it returned) and the allocations it made
parseTxIn(d, offset) ==
    LET R(txIn, n, err, panic, makes) ==
            [txIn |-> txIn, n |-> n, err |-> err, panic |-> panic, makes |-> makes]
        t0 == ZeroTxIn
    IN
    IF offset + 32 > Len(d)
    THEN R(t0, 0, ErrNew("unexpected end of data for previous tx hash"), "", <<>>)
    ELSE
    LET t1 == [t0 EXCEPT !.PreviousTxID = Slice(d, offset, offset + 32)]
        o1 == offset + 32
    IN
    IF o1 + 4 > Len(d)
    THEN R(t1, 0, ErrNew("unexpected end of data for previous output index"), "", <<>>)
    ELSE
    LET t2 == [t1 EXCEPT !.PreviousOutIdx = LEUint32(Slice(d, o1, o1 + 4))]
        o2 == o1 + 4
        v  == readVarInt(d, o2)
    IN
    IF v.err # NoErr
    THEN R(t2, 0, ErrWrap("failed to read script length", v.err), "", <<>>)
    ELSE
    LET t3 == [t2 EXCEPT !.ScriptSigLength = v.value]
        o3 == o2 + v.n
        s  == readSection(d, o3, v.value, "ScriptSig")
    IN
    IF s.status = "short"
    THEN R(t3, 0, ErrNew("unexpected end of data for script signature"), "", <<>>)
    ELSE IF s.status # "ok"
    THEN R(t3, 0, NoErr, s.status, s.makes)
    ELSE
    LET t4 == [t3 EXCEPT !.ScriptSig = s.bytes]
        o4 == o3 + U64ToNat(v.value)
    IN
    IF o4 + 4 > Len(d)
    THEN R(t4, 0, ErrNew("unexpected end of data for sequence"), "", s.makes)
    ELSE R([t4 EXCEPT !.Sequence = LEUint32(Slice(d, o4, o4 + 4))],
           (o4 + 4) - offset, NoErr, "", s.makes)

\* parseTxOut(data, offset) (TxOut, bytes consumed, error), plus the panic it
\* ended in ("" when it returned) and the allocations it made
parseTxOut(d, offset) ==
    LET R(txOut, n, err, panic, makes) ==
            [txOut |-> txOut, n |-> n, err |-> err, panic |-> panic, makes |-> makes]
        t0 == ZeroTxOut
    IN
    IF offset + 8 > Len(d)
    THEN R(t0, 0, ErrNew("unexpected end of data for value"), "", <<>>)
    ELSE
    LET t1 == [t0 EXCEPT !.Value = LEUint64(Slice(d, offset, offset + 8))]
        o1 == offset + 8
        v  == readVarInt(d, o1)
    IN
    IF v.err # NoErr
    THEN R(t1, 0, ErrWrap("failed to read script length", v.err), "", <<>>)
    ELSE
    LET t2 == [t1 EXCEPT !.ScriptPubKeyLen = v.value]
        o2 == o1 + v.n
        s  == readSection(d, o2, v.value, "ScriptPubKey")
    IN
    IF s.status = "short"
    THEN R(t2, 0, ErrNew("unexpected end of data for script public key"), "", <<>>)
    ELSE IF s.status # "ok"
    THEN R(t2, 0, NoErr, s.status, s.makes)
    ELSE R([t2 EXCEPT !.ScriptPubKey = s.bytes],
           (o2 + U64ToNat(v.value)) - offset, NoErr, "", s.makes)

---------------------------------------------------------------------------
(* Parse: the activation record and its steps.  Each step operator gives the *)
(* set of activation records the step can end in.                            *)

ZeroTx ==
    [Version |-> 0, Marker |-> 0, Flag |-> 0,
     TxInCount |-> U64Zero, TxIns |-> NilSlice,
     TxOutCount |-> U64Zero, TxOuts |-> NilSlice,
     Witnesses |-> NilSlice, LockTime |-> <<0, 0>>, IsSegWit |-> FALSE]

\* a pointer is a sequence of at most one element; Nil is the nil pointer
Nil == <<>>

\* &ParseError{Field: ..., Message: ...}; a field built with Sprintf("name[%d]", idx)
\* carries its index, any other has idx = -1
ParseError(name, idx, msg) == <<[Field |-> [name |-> name, idx |-> idx], Message |-> msg]>>

ZeroWitnessFrame ==
    [startOffset |-> 0, offset |-> 0, itemCount |-> U64Zero, Items |-> NilSlice, j |-> 0]

\* the record before Parse is entered
IdleFrame ==
    [pc |-> "idle", inParse |-> FALSE, offset |-> 0, i |-> 0,
     inputCount |-> U64Zero, outputCount |-> U64Zero,
     tx |-> ZeroTx, w |-> ZeroWitnessFrame,
     ret |-> [tx |-> Nil, err |-> Nil], crash |-> "",
     makes |-> <<>>, log |-> <<>>, iters |-> 0]

\* Parse has been called and has not executed anything yet
EntryFrame == [IdleFrame EXCEPT !.pc = "start", !.inParse = TRUE]

\* return tx, err
Return(s, tx, err) == [s EXCEPT !.pc = "done", !.ret = [tx |-> tx, err |-> err]]

\* the goroutine dies: a run-time panic or a fatal error of the runtime
Crash(s, why) == [s EXCEPT !.pc = "crashed", !.crash = why]

\* a field read from data[from:to], noted in the order of reading
Logged(s, field, idx, from, to) ==
    [s EXCEPT !.log = Append(@, [field |-> field, idx |-> idx, from |-> from, to |-> to])]

\* the effect of make([]T, n) on the activation record s: the allocation is
\* noted, and the step goes on to `ok` or the goroutine dies
WithMake(s, what, n, elemSize, offset, ok) ==
    LET noted == Append(s.makes, MakeRec(what, n, offset))
    IN  { CASE o = "panic" -> Crash([s EXCEPT !.makes = noted], PanicMakeSlice)
            [] o = "oom"   -> Crash([s EXCEPT !.makes = noted], FatalOutOfMemory)
            [] OTHER       -> [ok EXCEPT !.makes = noted]
          : o \in MakeOutcomes(n, elemSize) }

\* StepStart with the floor at the four bytes of the version
StepStartFloorVersion(d, s) ==
    IF Len(d) < 4
    THEN {Return(s, Nil, ParseError("transaction", -1, ErrNew("data too short")))}
    ELSE {[s EXCEPT !.pc = "version", !.tx = ZeroTx, !.offset = 0]}

\* StepStart leaving tx and offset as it finds them
StepStartUninitialised(d, s) ==
    IF Len(d) < 10
    THEN {Return(s, Nil, ParseError("transaction", -1, ErrNew("data too short")))}
    ELSE {[s EXCEPT !.pc = "version"]}

\* StepStart turning away a buffer of exactly 10 bytes
StepStartFloorEleven(d, s) ==
    IF Len(d) <= 10
    THEN {Return(s, Nil, ParseError("transaction", -1, ErrNew("data too short")))}
    ELSE {[s EXCEPT !.pc = "version", !.tx = ZeroTx, !.offset = 0]}

\* lines 101-107: the length floor, tx := &Transaction{}, offset := 0
StepStart(d, s) ==
    IF Len(d) < 10
    THEN {Return(s, Nil, ParseError("transaction", -1, ErrNew("data too short")))}
    ELSE {[s EXCEPT !.pc = "version", !.tx = ZeroTx, !.offset = 0]}

\* lines 109-114: the version
StepVersion(d, s) ==
    IF s.offset + 4 > Len(d)
    THEN {Return(s, Nil, ParseError("version", -1, ErrNew("unexpected end of data")))}
    ELSE {Logged([s EXCEPT !.pc = "marker",
                           !.tx.Version = Int32Of(LEUint32(Slice(d, s.offset, s.offset + 4))),
                           !.offset = s.offset + 4],
                 "version", -1, s.offset, s.offset + 4)}

\* StepMarker testing the marker byte alone
StepMarkerIgnoreFlag(d, s) ==
    IF s.offset + 2 <= Len(d) /\ d[s.offset + 1] = 0
    THEN {Logged([s EXCEPT !.pc = "input_count",
                           !.tx.IsSegWit = TRUE,
                           !.tx.Marker = d[s.offset + 1],
                           !.tx.Flag = d[s.offset + 2],
                           !.offset = s.offset + 2],
                 "marker", -1, s.offset, s.offset + 2)}
    ELSE {[s EXCEPT !.pc = "input_count"]}

\* StepMarker that never takes the SegWit branch
StepMarkerLegacyOnly(d, s) ==
    {[s EXCEPT !.pc = "input_count"]}

\* lines 116-122: the SegWit marker and flag
StepMarker(d, s) ==
    IF s.offset + 2 <= Len(d) /\ d[s.offset + 1] = 0 /\ d[s.offset + 2] = 1
    THEN {Logged([s EXCEPT !.pc = "input_count",
                           !.tx.IsSegWit = TRUE,
                           !.tx.Marker = d[s.offset + 1],
                           !.tx.Flag = d[s.offset + 2],
                           !.offset = s.offset + 2],
                 "marker", -1, s.offset, s.offset + 2)}
    ELSE {[s EXCEPT !.pc = "input_count"]}

\* StepInputCount with the count field set from the bytes consumed
StepInputCountFromBytesRead(d, s) ==
    LET v == readVarInt(d, s.offset) IN
    IF v.err # NoErr
    THEN {Return(s, Nil, ParseError("input_count", -1, v.err))}
    ELSE LET s1 == Logged([s EXCEPT !.tx.TxInCount = U64FromNat(v.n),
                                    !.inputCount = v.value,
                                    !.offset = s.offset + v.n],
                          "input_count", -1, s.offset, s.offset + v.n)
             ok == [s1 EXCEPT !.tx.TxIns = MakeSlice(v.value), !.i = 0, !.pc = "inputs"]
         IN  WithMake(s1, "TxIns", v.value, SizeofTxIn, s1.offset, ok)

\* lines 124-133: the input count and make([]TxIn, inputCount)
StepInputCount(d, s) ==
    LET v == readVarInt(d, s.offset) IN
    IF v.err # NoErr
    THEN {Return(s, Nil, ParseError("input_count", -1, v.err))}
    ELSE LET s1 == Logged([s EXCEPT !.tx.TxInCount = v.value,
                                    !.inputCount = v.value,
                                    !.offset = s.offset + v.n],
                          "input_count", -1, s.offset, s.offset + v.n)
             ok == [s1 EXCEPT !.tx.TxIns = MakeSlice(v.value), !.i = 0, !.pc = "inputs"]
         IN  WithMake(s1, "TxIns", v.value, SizeofTxIn, s1.offset, ok)

\* StepInput leaving an input it cannot decode at its zero value and going on
StepInputSkipsBad(d, s) ==
    IF ~U64Lt(U64FromNat(s.i), s.inputCount)
    THEN {[s EXCEPT !.pc = "output_count"]}
    ELSE LET r  == parseTxIn(d, s.offset)
             s1 == [s EXCEPT !.makes = @ \o r.makes, !.iters = @ + 1]
         IN  IF r.panic # "" THEN {Crash(s1, r.panic)}
             ELSE IF r.err # NoErr THEN {[s1 EXCEPT !.pc = "output_count"]}
             ELSE {Logged([s1 EXCEPT !.tx.TxIns = SliceSet(@, s.i, r.txIn),
                                     !.offset = s.offset + r.n,
                                     !.i = s.i + 1],
                          "input", s.i, s.offset, s.offset + r.n)}

\* StepInput leaving the cursor where it is after an input
StepInputNoAdvance(d, s) ==
    IF ~U64Lt(U64FromNat(s.i), s.inputCount)
    THEN {[s EXCEPT !.pc = "output_count"]}
    ELSE LET r  == parseTxIn(d, s.offset)
             s1 == [s EXCEPT !.makes = @ \o r.makes, !.iters = @ + 1]
         IN  IF r.panic # "" THEN {Crash(s1, r.panic)}
             ELSE IF r.err # NoErr THEN {Return(s1, Nil, ParseError("input", s.i, r.err))}
             ELSE {Logged([s1 EXCEPT !.tx.TxIns = SliceSet(@, s.i, r.txIn),
                                     !.i = s.i + 1],
                          "input", s.i, s.offset, s.offset + r.n)}

\* lines 134-141: one test of the input loop and, when it holds, one iteration
StepInput(d, s) ==
    IF ~U64Lt(U64FromNat(s.i), s.inputCount)
    THEN {[s EXCEPT !.pc = "output_count"]}
    ELSE LET r  == parseTxIn(d, s.offset)
             s1 == [s EXCEPT !.makes = @ \o r.makes, !.iters = @ + 1]
         IN  IF r.panic # "" THEN {Crash(s1, r.panic)}
             ELSE IF r.err # NoErr THEN {Return(s1, Nil, ParseError("input", s.i, r.err))}
             ELSE {Logged([s1 EXCEPT !.tx.TxIns = SliceSet(@, s.i, r.txIn),
                                     !.offset = s.offset + r.n,
                                     !.i = s.i + 1],
                          "input", s.i, s.offset, s.offset + r.n)}

\* StepOutputCount reporting its failure under the Field of the input count
StepOutputCountAsInputCount(d, s) ==
    LET v == readVarInt(d, s.offset) IN
    IF v.err # NoErr
    THEN {Return(s, Nil, ParseError("input_count", -1, v.err))}
    ELSE LET s1 == Logged([s EXCEPT !.tx.TxOutCount = v.value,
                                    !.outputCount = v.value,
                                    !.offset = s.offset + v.n],
                          "output_count", -1, s.offset, s.offset + v.n)
             ok == [s1 EXCEPT !.tx.TxOuts = MakeSlice(v.value), !.i = 0, !.pc = "outputs"]
         IN  WithMake(s1, "TxOuts", v.value, SizeofTxOut, s1.offset, ok)

\* lines 143-152: the output count and make([]TxOut, outputCount)
StepOutputCount(d, s) ==
    LET v == readVarInt(d, s.offset) IN
    IF v.err # NoErr
    THEN {Return(s, Nil, ParseError("output_count", -1, v.err))}
    ELSE LET s1 == Logged([s EXCEPT !.tx.TxOutCount = v.value,
                                    !.outputCount = v.value,
                                    !.offset = s.offset + v.n],
                          "output_count", -1, s.offset, s.offset + v.n)
             ok == [s1 EXCEPT !.tx.TxOuts = MakeSlice(v.value), !.i = 0, !.pc = "outputs"]
         IN  WithMake(s1, "TxOuts", v.value, SizeofTxOut, s1.offset, ok)

\* StepOutput stepping one byte too far after each output
StepOutputGap(d, s) ==
    IF ~U64Lt(U64FromNat(s.i), s.outputCount)
    THEN {[s EXCEPT !.pc = "witnesses"]}
    ELSE LET r  == parseTxOut(d, s.offset)
             s1 == [s EXCEPT !.makes = @ \o r.makes, !.iters = @ + 1]
         IN  IF r.panic # "" THEN {Crash(s1, r.panic)}
             ELSE IF r.err # NoErr THEN {Return(s1, Nil, ParseError("output", s.i, r.err))}
             ELSE {Logged([s1 EXCEPT !.tx.TxOuts = SliceSet(@, s.i, r.txOut),
                                     !.offset = s.offset + r.n + 1,
                                     !.i = s.i + 1],
                          "output", s.i, s.offset, s.offset + r.n + 1)}

\* lines 153-160: one test of the output loop and, when it holds, one iteration
StepOutput(d, s) ==
    IF ~U64Lt(U64FromNat(s.i), s.outputCount)
    THEN {[s EXCEPT !.pc = "witnesses"]}
    ELSE LET r  == parseTxOut(d, s.offset)
             s1 == [s EXCEPT !.makes = @ \o r.makes, !.iters = @ + 1]
         IN  IF r.panic # "" THEN {Crash(s1, r.panic)}
             ELSE IF r.err # NoErr THEN {Return(s1, Nil, ParseError("output", s.i, r.err))}
             ELSE {Logged([s1 EXCEPT !.tx.TxOuts = SliceSet(@, s.i, r.txOut),
                                     !.offset = s.offset + r.n,
                                     !.i = s.i + 1],
                          "output", s.i, s.offset, s.offset + r.n)}

\* StepWitnesses with the witness list sized by the output count
StepWitnessesPerOutput(d, s) ==
    IF s.tx.IsSegWit
    THEN LET ok == [s EXCEPT !.tx.Witnesses = MakeSlice(s.outputCount),
                                 !.i = 0, !.pc = "witness"]
         IN  WithMake(s, "Witnesses", s.outputCount, SizeofSlice, s.offset, ok)
    ELSE {[s EXCEPT !.pc = "locktime"]}

\* StepWitnesses without the SegWit test
StepWitnessesAlways(d, s) ==
    LET ok == [s EXCEPT !.tx.Witnesses = MakeSlice(s.inputCount), !.i = 0, !.pc = "witness"]
    IN  WithMake(s, "Witnesses", s.inputCount, SizeofSlice, s.offset, ok)

\* lines 162-164: the SegWit test and make([]TxWitness, inputCount)
StepWitnesses(d, s) ==
    IF s.tx.IsSegWit
    THEN LET ok == [s EXCEPT !.tx.Witnesses = MakeSlice(s.inputCount),
                                 !.i = 0, !.pc = "witness"]
         IN  WithMake(s, "Witnesses", s.inputCount, SizeofSlice, s.offset, ok)
    ELSE {[s EXCEPT !.pc = "locktime"]}

\* line 165, then parseWitness lines 262-273: one test of the witness loop and,
\* when it holds, the call of parseWitness up to make([][]byte, itemCount)
StepWitness(d, s) ==
    IF ~U64Lt(U64FromNat(s.i), s.inputCount)
    THEN {[s EXCEPT !.pc = "locktime"]}
    ELSE LET v  == readVarInt(d, s.offset)
             s0 == [s EXCEPT !.iters = @ + 1]
         IN
         IF v.err # NoErr
         THEN {Return(s0, Nil, ParseError("witness", s.i,
                                          ErrWrap("failed to read witness item count", v.err)))}
         ELSE LET ok ==
                      [s0 EXCEPT !.w = [startOffset |-> s.offset,
                                       offset |-> s.offset + v.n,
                                       itemCount |-> v.value,
                                       Items |-> MakeSlice(v.value),
                                       j |-> 0],
                                !.pc = "witness_items"]
              IN  WithMake(s0, "Items", v.value, SizeofSlice, s.offset + v.n, ok)

\* StepWitnessItem putting the index of the input where the index of the item belongs
StepWitnessItemNamesInput(d, s) ==
    IF ~U64Lt(U64FromNat(s.w.j), s.w.itemCount)
    THEN {Logged([s EXCEPT !.tx.Witnesses = SliceSet(@, s.i, [Items |-> s.w.Items]),
                           !.offset = s.offset + (s.w.offset - s.w.startOffset),
                           !.i = s.i + 1,
                           !.pc = "witness"],
                 "witness", s.i, s.offset, s.offset + (s.w.offset - s.w.startOffset))}
    ELSE LET v == readVarInt(d, s.w.offset) IN
         IF v.err # NoErr
         THEN {Return([s EXCEPT !.iters = @ + 1], Nil, ParseError("witness", s.i,
                     ErrWrapf("failed to read witness item %d length", s.i, v.err)))}
         ELSE LET o1 == s.w.offset + v.n
                  r  == readSection(d, o1, v.value, "Item")
                  s1 == [s EXCEPT !.w.offset = o1, !.makes = @ \o r.makes, !.iters = @ + 1]
              IN  IF r.status = "short"
                  THEN {Return(s1, Nil, ParseError("witness", s.i,
                              ErrNewf("unexpected end of data for witness item %d", s.i)))}
                  ELSE IF r.status # "ok" THEN {Crash(s1, r.status)}
                  ELSE {[s1 EXCEPT !.w.Items = SliceSet(@, s.w.j, r.bytes),
                                   !.w.offset = o1 + U64ToNat(v.value),
                                   !.w.j = s.w.j + 1]}

\* parseWitness lines 274-291, then lines 167-171: one test of the item loop
\* and one iteration; when the test fails parseWitness returns and Parse stores
\* the witness and advances its cursor
StepWitnessItem(d, s) ==
    IF ~U64Lt(U64FromNat(s.w.j), s.w.itemCount)
    THEN {Logged([s EXCEPT !.tx.Witnesses = SliceSet(@, s.i, [Items |-> s.w.Items]),
                           !.offset = s.offset + (s.w.offset - s.w.startOffset),
                           !.i = s.i + 1,
                           !.pc = "witness"],
                 "witness", s.i, s.offset, s.offset + (s.w.offset - s.w.startOffset))}
    ELSE LET v == readVarInt(d, s.w.offset) IN
         IF v.err # NoErr
         THEN {Return([s EXCEPT !.iters = @ + 1], Nil, ParseError("witness", s.i,
                     ErrWrapf("failed to read witness item %d length", s.w.j, v.err)))}
         ELSE LET o1 == s.w.offset + v.n
                  r  == readSection(d, o1, v.value, "Item")
                  s1 == [s EXCEPT !.w.offset = o1, !.makes = @ \o r.makes, !.iters = @ + 1]
              IN  IF r.status = "short"
                  THEN {Return(s1, Nil, ParseError("witness", s.i,
                              ErrNewf("unexpected end of data for witness item %d", s.w.j)))}
                  ELSE IF r.status # "ok" THEN {Crash(s1, r.status)}
                  ELSE {[s1 EXCEPT !.w.Items = SliceSet(@, s.w.j, r.bytes),
                                   !.w.offset = o1 + U64ToNat(v.value),
                                   !.w.j = s.w.j + 1]}

\* StepLockTime handing back the transaction built so far with the error
StepLockTimePartial(d, s) ==
    IF s.offset + 4 > Len(d)
    THEN {Return(s, <<s.tx>>, ParseError("locktime", -1, ErrNew("unexpected end of data")))}
    ELSE LET s1 == Logged([s EXCEPT !.tx.LockTime = LEUint32(Slice(d, s.offset, s.offset + 4))],
                          "locktime", -1, s.offset, s.offset + 4)
         IN  {Return(s1, <<s1.tx>>, Nil)}

\* StepLockTime refusing bytes after the locktime
StepLockTimeToTheEnd(d, s) ==
    IF s.offset + 4 # Len(d)
    THEN {Return(s, Nil, ParseError("locktime", -1, ErrNew("unexpected end of data")))}
    ELSE LET s1 == Logged([s EXCEPT !.tx.LockTime = LEUint32(Slice(d, s.offset, s.offset + 4))],
                          "locktime", -1, s.offset, s.offset + 4)
         IN  {Return(s1, <<s1.tx>>, Nil)}

\* StepLockTime refusing a locktime that ends the buffer
StepLockTimeOffByOne(d, s) ==
    IF s.offset + 4 >= Len(d)
    THEN {Return(s, Nil, ParseError("locktime", -1, ErrNew("unexpected end of data")))}
    ELSE LET s1 == Logged([s EXCEPT !.tx.LockTime = LEUint32(Slice(d, s.offset, s.offset + 4))],
                          "locktime", -1, s.offset, s.offset + 4)
         IN  {Return(s1, <<s1.tx>>, Nil)}

\* lines 175-181: the locktime and the successful return
StepLockTime(d, s) ==
    IF s.offset + 4 > Len(d)
    THEN {Return(s, Nil, ParseError("locktime", -1, ErrNew("unexpected end of data")))}
    ELSE LET s1 == Logged([s EXCEPT !.tx.LockTime = LEUint32(Slice(d, s.offset, s.offset + 4))],
                          "locktime", -1, s.offset, s.offset + 4)
         IN  {Return(s1, <<s1.tx>>, Nil)}

---------------------------------------------------------------------------
(* encoding/hex.DecodeString, ParseHex *)

HexLower == <<"0", "1", "2", "3", "4", "5", "6", "7", "8", "9", "a", "b", "c", "d", "e", "f">>
HexUpper == <<"0", "1", "2", "3", "4", "5", "6", "7", "8", "9", "A", "B", "C", "D", "E", "F">>

\* fromHexChar knowing the lower-case digits only
fromHexCharLowerOnly(c) ==
    IF \E k \in 1..16 : HexLower[k] = c THEN (CHOOSE k \in 1..16 : HexLower[k] = c) - 1
    ELSE 255

\* hex's reverseHexTable: the digit's value, 255 for any other character
fromHexChar(c) ==
    IF \E k \in 1..16 : HexLower[k] = c THEN (CHOOSE k \in 1..16 : HexLower[k] = c) - 1
    ELSE IF \E k \in 1..16 : HexUpper[k] = c THEN (CHOOSE k \in 1..16 : HexUpper[k] = c) - 1
    ELSE 255

\* hex.DecodeString(s): pairs are decoded left to right, the first invalid
\* character of a pair is reported; an odd trailing character is reported as
\* invalid if it is, and as an odd length otherwise
hexDecodeString(str) ==
    LET pairs == Len(str) \div 2
        bad   == {k \in 1..(2 * pairs) : fromHexChar(str[k]) > 15}
        first == CHOOSE k \in bad : \A m \in bad : k <= m
    IN  IF bad # {}
        THEN [bytes |-> <<>>,
              err |-> [fmt |-> <<"encoding/hex: invalid byte: %#U", str[first]>>, arg |-> -1]]
        ELSE IF Len(str) % 2 = 1
        THEN IF fromHexChar(str[Len(str)]) > 15
             THEN [bytes |-> <<>>,
                   err |-> [fmt |-> <<"encoding/hex: invalid byte: %#U", str[Len(str)]>>, arg |-> -1]]
             ELSE [bytes |-> <<>>, err |-> ErrNew("encoding/hex: odd length hex string")]
        ELSE [bytes |-> [k \in 1..pairs |->
                           16 * fromHexChar(str[2 * k - 1]) + fromHexChar(str[2 * k])],
              err |-> NoErr]

\* StepParseHex with the decoding error dropped: Parse gets the bytes decoded
\* before the malformed character
StepParseHexIgnoreErr(str, s) ==
    IF str = <<>>
    THEN [frame |-> Return(s, Nil, ParseError("transaction", -1, ErrNew("empty hex string"))),
          data |-> <<>>]
    ELSE [frame |-> EntryFrame, data |-> hexDecodeString(str).bytes]

\* ParseHex lines 86-98: [frame, data], the activation record after the step
\* (returned, or inside Parse) and the buffer handed to Parse
StepParseHex(str, s) ==
    IF str = <<>>
    THEN [frame |-> Return(s, Nil, ParseError("transaction", -1, ErrNew("empty hex string"))),
          data |-> <<>>]
    ELSE LET r == hexDecodeString(str) IN
         IF r.err # NoErr
         THEN [frame |-> Return(s, Nil, ParseError("hex", -1, ErrWrap("invalid hex encoding", r.err))),
               data |-> <<>>]
         ELSE [frame |-> EntryFrame, data |-> r.bytes]

---------------------------------------------------------------------------
(* encoding/hex.EncodeToString, GetTxIDHex *)

\* hex.EncodeToString(b): two digits of "0123456789abcdef" per byte
hexEncodeToString(b) ==
    [k \in 1..(2 * Len(b)) |->
        HexLower[(IF k % 2 = 1 THEN b[(k + 1) \div 2] \div 16 ELSE b[k \div 2] % 16) + 1]]

\* GetTxIDHex encoding the id in the order it is stored
GetTxIDHexStored(t) ==
    [t |-> t, ret |-> hexEncodeToString(t.PreviousTxID)]

\* (t *TxIn) GetTxIDHex(): [t, ret], the receiver after the call and the string
\* returned; reversed[i] = t.PreviousTxID[31-i]
GetTxIDHex(t) ==
    LET reversed == [i \in 1..TxIDLen |-> t.PreviousTxID[TxIDLen - (i - 1)]]
    IN  [t |-> t, ret |-> hexEncodeToString(reversed)]

---------------------------------------------------------------------------
(* The inputs: byte buffers and hex strings given to the decoder *)

MaxIns == 2         \* inputs of a generated transaction
MaxOuts == 2        \* outputs of a generated transaction
MaxScriptLen == 1   \* bytes of a generated script or witness item
MaxItems == 1       \* items of a generated witness stack
MaxTrail == 1       \* bytes appended after a complete transaction
MaxPad == 1         \* bytes before the VarInt in a readVarInt input
MaxIdStride == 7    \* step between the bytes of a generated transaction id

\* the widths of the four VarInt forms
Widths == {1, 3, 5, 9}

\* n < 253 encoded in the form of width w (canonical for w = 1)
EncVarInt(n, w) ==
    CASE w = 1 -> <<n>>
      [] w = 3 -> <<253, n, 0>>
      [] w = 5 -> <<254, n, 0, 0, 0>>
      [] OTHER -> <<255, n, 0, 0, 0, 0, 0, 0, 0>>

\* VarInts declaring far more than any buffer holds: 65535, 65536, 2^32-1,
\* 2^48, 2^63-1, 2^63, 2^64-1
HostileVarInts ==
    { <<253, 255, 255>>,
      <<254, 0, 0, 1, 0>>,
      <<254, 255, 255, 255, 255>>,
      <<255, 0, 0, 0, 0, 0, 0, 1, 0>>,
      <<255, 255, 255, 255, 255, 255, 255, 255, 127>>,
      <<255, 0, 0, 0, 0, 0, 0, 0, 128>>,
      <<255, 255, 255, 255, 255, 255, 255, 255, 255>> }

Roles == {"input_count", "script_sig", "output_count", "script_pubkey", "item_count", "item"}

NoOverride == [role |-> "none", enc |-> <<>>]

\* the VarInt of a role: the encoding of n, or the override's bytes
EncAt(role, n, w, ov) == IF ov.role = role THEN ov.enc ELSE EncVarInt(n, w)

ScriptBytes(len, k) == [j \in 1..len |-> 160 + 16 * k + j]

TxInBytes(k, sl, w, ov) ==
    [j \in 1..32 |-> 32 * k + j] \o <<9 + k, 0, 0, 0>>
        \o EncAt("script_sig", sl, w, ov) \o ScriptBytes(sl, k)
        \o <<254, 255, 255, 255>>

TxOutBytes(k, sl, w, ov) ==
    <<16, 39, 0, 0, 0, 0, 0, k>> \o EncAt("script_pubkey", sl, w, ov) \o ScriptBytes(sl, 2 + k)

RECURSIVE ItemsBytes(_, _, _, _)
ItemsBytes(n, sl, w, ov) ==
    IF n = 0 THEN <<>>
    ELSE ItemsBytes(n - 1, sl, w, ov) \o EncAt("item", sl, w, ov) \o ScriptBytes(sl, 3 + n)

WitnessBytes(ni, sl, w, ov) == EncAt("item_count", ni, w, ov) \o ItemsBytes(ni, sl, w, ov)

RECURSIVE InsBytes(_, _, _, _)
InsBytes(n, sl, w, ov) ==
    IF n = 0 THEN <<>> ELSE InsBytes(n - 1, sl, w, ov) \o TxInBytes(n - 1, sl, w, ov)

RECURSIVE OutsBytes(_, _, _, _)
OutsBytes(n, sl, w, ov) ==
    IF n = 0 THEN <<>> ELSE OutsBytes(n - 1, sl, w, ov) \o TxOutBytes(n - 1, sl, w, ov)

RECURSIVE WitsBytes(_, _, _, _, _)
WitsBytes(n, ni, sl, w, ov) ==
    IF n = 0 THEN <<>> ELSE WitsBytes(n - 1, ni, sl, w, ov) \o WitnessBytes(ni, sl, w, ov)

\* the wire bytes of a transaction with nIn inputs, nOut outputs, scripts and
\* witness items of sl bytes, ni items per witness, VarInts of width w
TxBytes(segwit, nIn, nOut, sl, ni, w, ov) ==
    <<2, 0, 0, 0>>
        \o (IF segwit THEN <<0, 1>> ELSE <<>>)
        \o EncAt("input_count", nIn, w, ov) \o InsBytes(nIn, sl, w, ov)
        \o EncAt("output_count", nOut, w, ov) \o OutsBytes(nOut, sl, w, ov)
        \o (IF segwit THEN WitsBytes(nIn, ni, sl, w, ov) ELSE <<>>)
        \o <<112, 0, 46, 0>>

WellFormed(ws) ==
    { TxBytes(sw, nIn, nOut, sl, ni, w, NoOverride) :
        sw \in BOOLEAN, nIn \in 0..MaxIns, nOut \in 0..MaxOuts,
        sl \in 0..MaxScriptLen, ni \in 0..MaxItems, w \in ws }

Prefixes(b) == { SubSeq(b, 1, n) : n \in 0..Len(b) }

Trailed(b) == { b \o [j \in 1..n |-> 0] : n \in 1..MaxTrail }

Hostile ==
    { TxBytes(TRUE, 1, 1, 1, 1, 1, [role |-> r, enc |-> h]) : r \in Roles, h \in HostileVarInts }

\* every buffer Parse is run on: the well-formed transactions in every VarInt
\* form, every truncation of the canonical ones, trailing bytes, hostile lengths
Buffers ==
    WellFormed(Widths)
        \cup UNION { Prefixes(b) : b \in WellFormed({1}) }
        \cup UNION { Trailed(b) : b \in WellFormed({1}) }
        \cup Hostile

ToHex(b, digits) ==
    [k \in 1..(2 * Len(b)) |->
        IF k % 2 = 1 THEN digits[(b[(k + 1) \div 2] \div 16) + 1]
                     ELSE digits[(b[k \div 2] % 16) + 1]]

\* the buffers given to ParseHex as text
HexBuffers ==
    { TxBytes(sw, 1, 1, 1, 1, 1, NoOverride) : sw \in BOOLEAN }
        \cup { <<>>, <<2, 0, 0, 0>>, TxBytes(FALSE, 0, 0, 0, 0, 1, NoOverride) }

\* the SegWit transaction of the tests (1 input, 11 outputs), as text
sampleTxHex ==
    <<
       "0", "2", "0", "0", "0", "0", "0", "0", "0", "0", "0", "1", "0", "1", "f", "b",
       "7", "2", "1", "e", "5", "e", "b", "c", "b", "8", "0", "d", "e", "d", "7", "e",
       "5", "8", "f", "6", "e", "e", "e", "2", "6", "6", "2", "e", "8", "8", "6", "7",
       "0", "d", "5", "2", "8", "4", "3", "f", "7", "b", "6", "e", "d", "e", "9", "1",
       "7", "6", "2", "b", "f", "6", "9", "5", "d", "9", "4", "6", "9", "e", "0", "9",
       "0", "0", "0", "0", "0", "0", "0", "0", "f", "e", "f", "f", "f", "f", "f", "f",
       "0", "b", "1", "0", "2", "7", "0", "0", "0", "0", "0", "0", "0", "0", "0", "0",
       "0", "0", "1", "9", "7", "6", "a", "9", "1", "4", "2", "c", "a", "c", "b", "2",
       "1", "6", "9", "c", "6", "2", "5", "5", "6", "9", "6", "a", "9", "d", "6", "f",
       "6", "0", "a", "d", "9", "4", "8", "c", "c", "f", "7", "2", "3", "3", "9", "3",
       "a", "4", "8", "8", "a", "c", "1", "0", "2", "7", "0", "0", "0", "0", "0", "0",
       "0", "0", "0", "0", "0", "0", "1", "9", "7", "6", "a", "9", "1", "4", "b", "8",
       "b", "c", "b", "2", "2", "b", "1", "4", "9", "3", "0", "9", "4", "d", "a", "0",
       "0", "5", "0", "3", "1", "9", "b", "a", "3", "6", "a", "e", "4", "9", "7", "3",
       "c", "3", "b", "d", "2", "9", "8", "8", "a", "c", "1", "0", "2", "7", "0", "0",
       "0", "0", "0", "0", "0", "0", "0", "0", "0", "0", "1", "6", "0", "0", "1", "4",
       "6", "a", "a", "c", "b", "0", "7", "7", "3", "8", "d", "1", "8", "f", "8", "3",
       "c", "8", "2", "9", "6", "2", "9", "4", "3", "8", "a", "1", "9", "f", "b", "8",
       "3", "4", "a", "7", "0", "e", "a", "6", "5", "0", "c", "3", "0", "0", "0", "0",
       "0", "0", "0", "0", "0", "0", "0", "0", "1", "7", "a", "9", "1", "4", "4", "4",
       "2", "a", "0", "d", "5", "7", "7", "b", "3", "0", "e", "d", "5", "7", "f", "8",
       "d", "3", "6", "6", "f", "5", "3", "0", "e", "2", "c", "f", "0", "f", "1", "d",
       "e", "1", "1", "1", "7", "6", "8", "7", "1", "0", "2", "7", "0", "0", "0", "0",
       "0", "0", "0", "0", "0", "0", "0", "0", "1", "6", "0", "0", "1", "4", "2", "b",
       "9", "c", "0", "a", "7", "b", "7", "9", "1", "5", "4", "7", "6", "1", "3", "3",
       "8", "c", "8", "7", "5", "f", "0", "4", "8", "6", "6", "a", "d", "4", "e", "7",
       "9", "c", "7", "5", "6", "4", "1", "0", "2", "7", "0", "0", "0", "0", "0", "0",
       "0", "0", "0", "0", "0", "0", "1", "9", "7", "6", "a", "9", "1", "4", "8", "7",
       "f", "6", "3", "0", "0", "0", "d", "6", "2", "7", "1", "f", "b", "0", "9", "3",
       "7", "7", "b", "2", "e", "3", "3", "9", "c", "5", "0", "c", "d", "a", "d", "e",
       "a", "8", "a", "7", "6", "e", "8", "8", "a", "c", "1", "0", "2", "7", "0", "0",
       "0", "0", "0", "0", "0", "0", "0", "0", "0", "0", "1", "9", "7", "6", "a", "9",
       "1", "4", "b", "d", "8", "7", "7", "4", "9", "e", "e", "c", "a", "2", "0", "7",
       "f", "a", "3", "a", "d", "2", "4", "1", "3", "3", "d", "7", "8", "5", "8", "7",
       "f", "4", "3", "f", "4", "c", "8", "d", "3", "3", "8", "8", "a", "c", "1", "0",
       "2", "7", "0", "0", "0", "0", "0", "0", "0", "0", "0", "0", "0", "0", "1", "6",
       "0", "0", "1", "4", "c", "7", "5", "1", "7", "a", "f", "2", "f", "b", "0", "8",
       "7", "a", "c", "5", "d", "0", "f", "4", "e", "e", "c", "0", "0", "7", "7", "f",
       "a", "d", "2", "c", "c", "2", "5", "1", "e", "7", "e", "f", "5", "0", "c", "3",
       "0", "0", "0", "0", "0", "0", "0", "0", "0", "0", "0", "0", "1", "9", "7", "6",
       "a", "9", "1", "4", "e", "9", "b", "4", "c", "c", "3", "8", "c", "8", "e", "8",
       "5", "d", "1", "5", "6", "a", "1", "d", "3", "9", "1", "d", "f", "a", "a", "5",
       "a", "d", "3", "9", "e", "7", "1", "1", "4", "b", "1", "c", "8", "8", "a", "c",
       "1", "0", "2", "7", "0", "0", "0", "0", "0", "0", "0", "0", "0", "0", "0", "0",
       "1", "6", "0", "0", "1", "4", "c", "7", "f", "c", "2", "8", "1", "3", "c", "1",
       "b", "c", "4", "0", "2", "e", "e", "6", "e", "c", "7", "f", "a", "3", "d", "1",
       "d", "6", "3", "1", "2", "7", "4", "f", "2", "c", "5", "3", "6", "3", "6", "8",
       "0", "c", "0", "9", "0", "0", "0", "0", "0", "0", "0", "0", "0", "0", "1", "6",
       "0", "0", "1", "4", "b", "9", "3", "e", "a", "0", "2", "3", "4", "6", "e", "6",
       "5", "f", "b", "5", "f", "9", "5", "9", "4", "e", "1", "8", "6", "7", "3", "e",
       "4", "f", "3", "7", "8", "a", "e", "e", "0", "0", "3", "5", "0", "2", "4", "7",
       "3", "0", "4", "4", "0", "2", "2", "0", "3", "8", "6", "a", "a", "6", "4", "9",
       "9", "8", "6", "e", "3", "6", "4", "5", "f", "a", "b", "5", "8", "c", "d", "7",
       "d", "5", "3", "6", "a", "4", "e", "1", "b", "3", "e", "e", "2", "9", "0", "f",
       "1", "2", "5", "9", "8", "6", "f", "f", "0", "d", "e", "c", "5", "5", "9", "c",
       "6", "1", "d", "8", "4", "e", "c", "e", "0", "2", "2", "0", "1", "1", "4", "a",
       "9", "0", "f", "8", "4", "d", "9", "f", "5", "8", "3", "5", "f", "f", "7", "0",
       "a", "2", "e", "b", "0", "7", "2", "3", "c", "a", "f", "2", "6", "b", "0", "b",
       "2", "8", "7", "c", "7", "9", "0", "7", "4", "5", "e", "9", "5", "c", "3", "8",
       "e", "e", "d", "7", "2", "9", "d", "d", "1", "0", "b", "9", "0", "1", "2", "1",
       "0", "3", "0", "b", "9", "f", "3", "a", "2", "9", "e", "d", "9", "8", "6", "0",
       "e", "4", "b", "8", "e", "5", "8", "8", "5", "f", "d", "e", "f", "1", "7", "8",
       "2", "4", "e", "1", "5", "d", "9", "5", "5", "b", "b", "8", "e", "8", "e", "2",
       "0", "5", "a", "7", "7", "8", "3", "6", "3", "9", "2", "b", "f", "3", "c", "3",
       "7", "7", "7", "0", "0", "0", "2", "e", "0", "0"
    >>

\* hex strings: well-formed in either case, with the last character dropped,
\* with one of the first three characters or the last replaced by a non-digit,
\* and the sample of the tests
HexInputs ==
    LET good == { ToHex(b, dg) : b \in HexBuffers, dg \in {HexLower, HexUpper} }
    IN  good
          \cup { SubSeq(h, 1, Len(h) - 1) : h \in good \ {<<>>} }
          \cup { [h EXCEPT ![k] = c] : h \in good \ {<<>>}, k \in 1..3, c \in {"g", " "} }
          \cup { [h EXCEPT ![Len(h)] = "g"] : h \in good \ {<<>>} }
          \cup { <<"g">>, <<"0">> }
          \cup { sampleTxHex }

\* buffers readVarInt is called on directly: padding, a prefix byte, a payload cut short
VarIntInputs ==
    { [j \in 1..pad |-> 7] \o <<p>> \o SubSeq(body, 1, n) :
        pad \in 0..MaxPad,
        p \in {0, 66, 252, 253, 254, 255},
        body \in { <<5, 0, 0, 0, 0, 0, 0, 0>>, <<0, 1, 0, 0, 0, 0, 0, 0>>,
                   <<1, 2, 3, 4, 5, 6, 7, 8>>, <<255, 255, 255, 255, 255, 255, 255, 255>> },
        n \in 0..8 }
      \cup {<<>>}

\* the ids GetTxIDHex is called on: arithmetic byte patterns, and the id of
\* the input of the sample
TxIDSamples ==
    { [j \in 1..TxIDLen |-> (a * j + b) % 256] :
        a \in 0..MaxIdStride, b \in {0, 9, 10, 15, 16, 127, 171, 255} }
      \cup { SubSeq(hexDecodeString(sampleTxHex).bytes, 8, 7 + TxIDLen) }

\* the buffers two goroutines decode at the same time: SegWit and legacy
\* transactions, a truncated one, one too short, one with a hostile length
ConcurrentBuffers ==
    LET sw == TxBytes(TRUE, 1, 1, 1, 1, 1, NoOverride)
    IN  { sw,
          TxBytes(FALSE, 1, 1, 1, 0, 1, NoOverride),
          SubSeq(sw, 1, Len(sw) - 5),
          <<2, 0, 0, 0>>,
          TxBytes(TRUE, 1, 1, 1, 1, 1,
                  [role |-> "script_pubkey", enc |-> <<255, 0, 0, 0, 0, 0, 0, 0, 128>>]) }

---------------------------------------------------------------------------
(* The state machine *)

NoVarInt == [offset |-> -1, value |-> U64Zero, n |-> 0, err |-> NoErr]

\* no second goroutine
NoPeer == [data |-> <<>>, st |-> IdleFrame]

\* GetTxIDHex has not been called
NoCall == [t |-> ZeroTxIn, before |-> ZeroTxIn, called |-> FALSE, ret |-> <<>>]

\* a caller invokes Parse(data)
InitParse ==
    /\ entry = "Parse"
    /\ hexStr = <<>>
    /\ farmer = NoFarmer /\ calls = NoCalls /\ wins = 0
    /\ data \in Buffers
    /\ st = EntryFrame
    /\ vi = NoVarInt
    /\ peer = NoPeer
    /\ shown = NoCall

\* a caller invokes ParseHex(hexStr)
InitParseHex ==
    /\ entry = "ParseHex"
    /\ hexStr \in HexInputs
    /\ farmer = NoFarmer /\ calls = NoCalls /\ wins = 0
    /\ data = <<>>
    /\ st = IdleFrame
    /\ vi = NoVarInt
    /\ peer = NoPeer
    /\ shown = NoCall

Init == InitParse \/ InitParseHex

ParseHex ==
    /\ entry = "ParseHex"
    /\ st.pc = "idle"
    /\ LET r == StepParseHex(hexStr, st) IN st' = r.frame /\ data' = r.data
    /\ UNCHANGED <<entry, hexStr, vi, peer, shown, farmer, calls, wins>>

Start ==
    /\ st.pc = "start"
    /\ st' \in StepStart(data, st)
    /\ UNCHANGED <<entry, hexStr, data, vi, peer, shown, farmer, calls, wins>>

Version ==
    /\ st.pc = "version"
    /\ st' \in StepVersion(data, st)
    /\ UNCHANGED <<entry, hexStr, data, vi, peer, shown, farmer, calls, wins>>

Marker ==
    /\ st.pc = "marker"
    /\ st' \in StepMarker(data, st)
    /\ UNCHANGED <<entry, hexStr, data, vi, peer, shown, farmer, calls, wins>>

InputCount ==
    /\ st.pc = "input_count"
    /\ st' \in StepInputCount(data, st)
    /\ UNCHANGED <<entry, hexStr, data, vi, peer, shown, farmer, calls, wins>>

Input ==
    /\ st.pc = "inputs"
    /\ st' \in StepInput(data, st)
    /\ UNCHANGED <<entry, hexStr, data, vi, peer, shown, farmer, calls, wins>>

OutputCount ==
    /\ st.pc = "output_count"
    /\ st' \in StepOutputCount(data, st)
    /\ UNCHANGED <<entry, hexStr, data, vi, peer, shown, farmer, calls, wins>>

Output ==
    /\ st.pc = "outputs"
    /\ st' \in StepOutput(data, st)
    /\ UNCHANGED <<entry, hexStr, data, vi, peer, shown, farmer, calls, wins>>

Witnesses ==
    /\ st.pc = "witnesses"
    /\ st' \in StepWitnesses(data, st)
    /\ UNCHANGED <<entry, hexStr, data, vi, peer, shown, farmer, calls, wins>>

Witness ==
    /\ st.pc = "witness"
    /\ st' \in StepWitness(data, st)
    /\ UNCHANGED <<entry, hexStr, data, vi, peer, shown, farmer, calls, wins>>

WitnessItem ==
    /\ st.pc = "witness_items"
    /\ st' \in StepWitnessItem(data, st)
    /\ UNCHANGED <<entry, hexStr, data, vi, peer, shown, farmer, calls, wins>>

LockTime ==
    /\ st.pc = "locktime"
    /\ st' \in StepLockTime(data, st)
    /\ UNCHANGED <<entry, hexStr, data, vi, peer, shown, farmer, calls, wins>>

Next ==
    \/ ParseHex
    \/ Start
    \/ Version
    \/ Marker
    \/ InputCount
    \/ Input
    \/ OutputCount
    \/ Output
    \/ Witnesses
    \/ Witness
    \/ WitnessItem
    \/ LockTime

Spec == Init /\ [][Next]_vars

\* readVarInt called on its own, at any offset of the buffer and one past it
InitVarInt ==
    /\ entry = "readVarInt"
    /\ hexStr = <<>>
    /\ farmer = NoFarmer /\ calls = NoCalls /\ wins = 0
    /\ data \in VarIntInputs
    /\ st = IdleFrame
    /\ vi = NoVarInt
    /\ peer = NoPeer
    /\ shown = NoCall

CallReadVarInt ==
    /\ entry = "readVarInt"
    /\ vi = NoVarInt
    /\ \E offset \in 0..(Len(data) + 1) :
         LET r == readVarInt(data, offset)
         IN  vi' = [offset |-> offset, value |-> r.value, n |-> r.n, err |-> r.err]
    /\ UNCHANGED <<entry, hexStr, data, st, peer, shown, farmer, calls, wins>>

NextVarInt == CallReadVarInt

SpecVarInt == InitVarInt /\ [][NextVarInt]_vars

\* GetTxIDHex called on a TxIn
InitDisplay ==
    /\ entry = "GetTxIDHex"
    /\ hexStr = <<>>
    /\ farmer = NoFarmer /\ calls = NoCalls /\ wins = 0
    /\ data = <<>>
    /\ st = IdleFrame
    /\ vi = NoVarInt
    /\ peer = NoPeer
    /\ \E id \in TxIDSamples :
         LET t == [ZeroTxIn EXCEPT !.PreviousTxID = id]
         IN  shown = [t |-> t, before |-> t, called |-> FALSE, ret |-> <<>>]

CallGetTxIDHex ==
    /\ entry = "GetTxIDHex"
    /\ ~shown.called
    /\ LET r == GetTxIDHex(shown.t)
       IN  shown' = [shown EXCEPT !.t = r.t, !.called = TRUE, !.ret = r.ret]
    /\ UNCHANGED <<entry, hexStr, data, st, vi, peer, farmer, calls, wins>>

NextDisplay == CallGetTxIDHex

SpecDisplay == InitDisplay /\ [][NextDisplay]_vars

\* the buffers whose runs are followed to their end: the canonical well-formed
\* transactions, every truncation of the largest one, the hostile lengths
FairBuffers ==
    WellFormed({1})
        \cup Prefixes(TxBytes(TRUE, MaxIns, MaxOuts, MaxScriptLen, MaxItems, 1, NoOverride))
        \cup Hostile

InitFair ==
    \/ /\ entry = "Parse"
       /\ hexStr = <<>>
       /\ farmer = NoFarmer /\ calls = NoCalls /\ wins = 0
       /\ data \in FairBuffers
       /\ st = EntryFrame
       /\ vi = NoVarInt
       /\ peer = NoPeer
       /\ shown = NoCall
    \/ InitParseHex

\* Parse and ParseHex are ordinary synchronous calls: a call that can take a
\* step takes it
SpecFair == InitFair /\ [][Next]_vars /\ WF_vars(Next)

---------------------------------------------------------------------------
(* Parse as a function of its buffer *)

\* the statement of Parse the activation record s is at, executed on d
Step(d, s) ==
    CASE s.pc = "start"         -> StepStart(d, s)
      [] s.pc = "version"       -> StepVersion(d, s)
      [] s.pc = "marker"        -> StepMarker(d, s)
      [] s.pc = "input_count"   -> StepInputCount(d, s)
      [] s.pc = "inputs"        -> StepInput(d, s)
      [] s.pc = "output_count"  -> StepOutputCount(d, s)
      [] s.pc = "outputs"       -> StepOutput(d, s)
      [] s.pc = "witnesses"     -> StepWitnesses(d, s)
      [] s.pc = "witness"       -> StepWitness(d, s)
      [] s.pc = "witness_items" -> StepWitnessItem(d, s)
      [] s.pc = "locktime"      -> StepLockTime(d, s)
      [] OTHER                  -> {}

\* the activation records Parse can end in when it runs on d from s
RECURSIVE Run(_, _)
Run(d, s) ==
    IF s.pc \in {"done", "crashed"} THEN {s}
    ELSE UNION { Run(d, t) : t \in Step(d, s) }

---------------------------------------------------------------------------
(* Two goroutines in Parse, each on a buffer of its own *)

InitConcurrent ==
    /\ entry = "go Parse"
    /\ hexStr = <<>>
    /\ farmer = NoFarmer /\ calls = NoCalls /\ wins = 0
    /\ data \in ConcurrentBuffers
    /\ st = EntryFrame
    /\ vi = NoVarInt
    /\ peer \in [data : ConcurrentBuffers, st : {EntryFrame}]
    /\ shown = NoCall

\* the second goroutine executes its next statement of Parse (lines 101-182)
PeerStep ==
    /\ peer.st.pc \notin {"idle", "done", "crashed", "killed"}
    /\ \E t \in Step(peer.data, peer.st) : peer' = [peer EXCEPT !.st = t]
    /\ UNCHANGED <<entry, hexStr, data, st, vi, shown, farmer, calls, wins>>

\* the goroutine is stopped where it stands: the program exits
Killed(s) == IF s.pc \in {"done", "crashed"} THEN s ELSE [s EXCEPT !.pc = "killed"]

\* Parse recovers from no panic (it has no defer), so a panic or a fatal error
\* of one goroutine ends the program, the other goroutine with it; until the
\* runtime has got there the other goroutine keeps running
ProgramExit ==
    /\ entry = "go Parse"
    /\ \/ st.pc = "crashed" /\ peer.st.pc \notin {"done", "crashed", "killed"}
       \/ peer.st.pc = "crashed" /\ st.pc \notin {"done", "crashed", "killed"}
    /\ st' = Killed(st)
    /\ peer' = [peer EXCEPT !.st = Killed(peer.st)]
    /\ UNCHANGED <<entry, hexStr, data, vi, shown, farmer, calls, wins>>

NextConcurrent ==
    \/ Start
    \/ Version
    \/ Marker
    \/ InputCount
    \/ Input
    \/ OutputCount
    \/ Output
    \/ Witnesses
    \/ Witness
    \/ WitnessItem
    \/ LockTime
    \/ PeerStep
    \/ ProgramExit

SpecConcurrent == InitConcurrent /\ [][NextConcurrent]_vars

---------------------------------------------------------------------------
(* Vocabulary of the properties *)

\* the exported function has returned to its caller
Returned == st.pc = "done"

\* it returned a Transaction and no error
Succeeded == Returned /\ st.ret.err = Nil

\* it returned an error
Failed == Returned /\ st.ret.err # Nil

\* the Transaction returned (when Succeeded)
RetTx == st.ret.tx[1]

\* the error returned (when Failed)
RetErr == st.ret.err[1]

\* the width of the VarInt form a prefix byte selects (the table of the format)
WidthOfPrefix(first) ==
    CASE first < 253 -> 1
      [] first = 253 -> 3
      [] first = 254 -> 5
      [] OTHER       -> 9

\* the entries of the read log for one kind of field, in reading order
LogOf(field) == SelectSeq(st.log, LAMBDA e : e.field = field)

---------------------------------------------------------------------------
(* The caller writes to the buffer after Parse has returned *)

\* the byte slice stored for the section at offset `at` has a backing array of
\* its own: it was made by make([]byte, n) at that cursor (lines 215, 253, 286)
OwnsCopy(what, at) ==
    \E k \in 1..Len(st.makes) : st.makes[k].what = what /\ st.makes[k].offset = at

\* what a byte slice of the result reads as once the buffer holds d2: its own
\* bytes when it has its own backing array, the bytes of the buffer otherwise
\* (the function has no other array a slice could point into)
Seen(bytes, what, at, d2) ==
    IF OwnsCopy(what, at) THEN bytes ELSE Slice(d2, at, at + Len(bytes))

\* the offset of the bytes of item j (from 1) of a witness whose first item
\* length stands at offset p
RECURSIVE ItemBytesAt(_, _)
ItemBytesAt(p, j) ==
    LET v == readVarInt(data, p)
    IN  IF j = 1 THEN p + v.n ELSE ItemBytesAt(p + v.n + U64ToNat(v.value), j - 1)

\* the returned Transaction as its holder reads it once the buffer holds d2
ObservedTx(d2) ==
    LET ins  == RetTx.TxIns.items
        outs == RetTx.TxOuts.items
        wits == RetTx.Witnesses.items
        in(i)  == [ins[i] EXCEPT !.ScriptSig =
                      Seen(@, "ScriptSig", LogOf("input")[i].to - 4 - Len(@), d2)]
        out(i) == [outs[i] EXCEPT !.ScriptPubKey =
                      Seen(@, "ScriptPubKey", LogOf("output")[i].to - Len(@), d2)]
        first(i) == LogOf("witness")[i].from + readVarInt(data, LogOf("witness")[i].from).n
        wit(i) == [wits[i] EXCEPT !.Items.items =
                      [j \in 1..Len(@) |-> Seen(@[j], "Item", ItemBytesAt(first(i), j), d2)]]
    IN  [RetTx EXCEPT !.TxIns.items = [i \in 1..Len(ins) |-> in(i)],
                      !.TxOuts.items = [i \in 1..Len(outs) |-> out(i)],
                      !.Witnesses.items = [i \in 1..Len(wits) |-> wit(i)]]

\* Parse has returned a Transaction; its caller overwrites one byte of the
\* buffer and looks at the Transaction again
Overwrite ==
    /\ entry = "Parse"
    /\ Succeeded
    /\ \E k \in 1..Len(data) :
         LET d2 == [data EXCEPT ![k] = 255 - data[k]]
         IN  /\ data' = d2
             /\ st' = [st EXCEPT !.pc = "reused", !.ret.tx = <<ObservedTx(d2)>>]
    /\ UNCHANGED <<entry, hexStr, vi, peer, shown, farmer, calls, wins>>

NextReuse ==
    \/ ParseHex
    \/ Start
    \/ Version
    \/ Marker
    \/ InputCount
    \/ Input
    \/ OutputCount
    \/ Output
    \/ Witnesses
    \/ Witness
    \/ WitnessItem
    \/ LockTime
    \/ Overwrite

SpecReuse == Init /\ [][NextReuse]_vars

---------------------------------------------------------------------------
(* Properties *)

\* C1: whenever Parse (or ParseHex) returns a Transaction without error,
\* len(TxIns) equals TxInCount and len(TxOuts) equals TxOutCount, and every
\* element of both lists has been decoded.
C1_CountsMatchLists ==
    Succeeded =>
        /\ RetTx.TxIns.len = RetTx.TxInCount
        /\ RetTx.TxOuts.len = RetTx.TxOutCount
        /\ U64FromNat(Len(RetTx.TxIns.items)) = RetTx.TxInCount
        /\ U64FromNat(Len(RetTx.TxOuts.items)) = RetTx.TxOutCount

\* a transaction with two inputs and two outputs has been decoded
C1_Witness ==
    /\ Succeeded
    /\ RetTx.TxInCount = U64FromNat(2)
    /\ RetTx.TxOutCount = U64FromNat(2)

\* C2: whenever Parse succeeds, a SegWit transaction has one witness per input,
\* stored in input order, and a non-SegWit transaction has no witnesses.
C2_WitnessPerInput ==
    Succeeded =>
        IF RetTx.IsSegWit
        THEN /\ RetTx.Witnesses.len = RetTx.TxInCount
             /\ U64FromNat(Len(RetTx.Witnesses.items)) = RetTx.TxInCount
             /\ Len(LogOf("witness")) = Len(RetTx.Witnesses.items)
             /\ \A k \in 1..Len(LogOf("witness")) : LogOf("witness")[k].idx = k - 1
        ELSE /\ RetTx.Witnesses.len = U64Zero
             /\ RetTx.Witnesses.items = <<>>
             /\ LogOf("witness") = <<>>

\* a SegWit transaction with two inputs, each with a non-empty witness stack,
\* and one output has been decoded
C2_Witness ==
    /\ Succeeded
    /\ RetTx.IsSegWit
    /\ RetTx.TxInCount = U64FromNat(2)
    /\ RetTx.TxOutCount = U64FromNat(1)
    /\ \A k \in 1..Len(RetTx.Witnesses.items) : RetTx.Witnesses.items[k].Items.items # <<>>

\* C3: whenever Parse or ParseHex returns an error, the Transaction it returns
\* is nil, whatever had been decoded before the failing step; a Transaction is
\* returned only without an error.
C3_NoPartialResult ==
    Returned =>
        /\ (st.ret.err # Nil => st.ret.tx = Nil)
        /\ (st.ret.err = Nil => st.ret.tx # Nil)

\* the locktime is truncated after inputs and outputs were decoded, and the
\* caller gets an error
C3_Witness ==
    /\ Failed
    /\ RetErr.Field.name = "locktime"
    /\ st.tx.TxIns.items # <<>>
    /\ st.tx.TxOuts.items # <<>>

\* C4: on every buffer Parse ends by returning; it never ends in a run-time
\* panic (a slice allocation of negative or oversized length, a slice
\* expression out of range).
C4_ParseNeverPanics ==
    ~(st.pc = "crashed" /\ st.crash \in {PanicMakeSlice, PanicSliceBounds})

\* the byte-slice allocations of parseTxIn, parseTxOut and parseWitness
ByteMakes == SelectSeq(st.makes, LAMBDA m : m.what \in {"ScriptSig", "ScriptPubKey", "Item"})

\* C5: a byte slice of declared length L is allocated at cursor position
\* offset only when offset + L <= len(data) holds in exact arithmetic.
C5_AllocationWithinBuffer ==
    \A k \in 1..Len(ByteMakes) :
        /\ U64IsSmall(ByteMakes[k].n)
        /\ ByteMakes[k].offset + U64ToNat(ByteMakes[k].n) <= Len(data)

\* the script of the record read from data[from:...] whose length VarInt
\* stands `fixed` bytes into the record: the bytes right after that VarInt
ScriptAfterVarInt(from, fixed, len) ==
    LET at == from + fixed + WidthOfPrefix(data[from + fixed + 1])
    IN  SubSeq(data, at + 1, at + len)

\* C6: whenever Parse succeeds, every input's ScriptSig has ScriptSigLength
\* bytes and every output's ScriptPubKey has ScriptPubKeyLen bytes, and they
\* are the buffer bytes that immediately follow the length VarInt.
C6_ScriptsMatchDeclaredLength ==
    Succeeded =>
        /\ Len(LogOf("input")) = Len(RetTx.TxIns.items)
        /\ Len(LogOf("output")) = Len(RetTx.TxOuts.items)
        /\ \A k \in 1..Len(RetTx.TxIns.items) :
             LET in == RetTx.TxIns.items[k] IN
             /\ U64FromNat(Len(in.ScriptSig)) = in.ScriptSigLength
             /\ in.ScriptSig = ScriptAfterVarInt(LogOf("input")[k].from, 36, Len(in.ScriptSig))
        /\ \A k \in 1..Len(RetTx.TxOuts.items) :
             LET out == RetTx.TxOuts.items[k] IN
             /\ U64FromNat(Len(out.ScriptPubKey)) = out.ScriptPubKeyLen
             /\ out.ScriptPubKey = ScriptAfterVarInt(LogOf("output")[k].from, 8, Len(out.ScriptPubKey))

\* a transaction with two inputs and two outputs, all with non-empty scripts
\* whose length is written in a three-byte VarInt, has been decoded
C6_Witness ==
    /\ Succeeded
    /\ Len(RetTx.TxIns.items) = 2
    /\ Len(RetTx.TxOuts.items) = 2
    /\ \A k \in 1..2 : RetTx.TxIns.items[k].ScriptSig # <<>>
    /\ \A k \in 1..2 : RetTx.TxOuts.items[k].ScriptPubKey # <<>>
    /\ data[LogOf("input")[1].from + 37] = 253

\* readVarInt has been called on its own
VarIntCalled == entry = "readVarInt" /\ vi.offset >= 0

\* the byte k positions after the prefix byte of the call
PayloadByte(k) == data[vi.offset + 1 + k]

\* C7: when enough bytes remain, readVarInt returns the first byte and 1 for a
\* first byte below 0xFD, and the little-endian value of the next 2, 4 or 8
\* bytes with 3, 5 or 9 for 0xFD, 0xFE, 0xFF; a value that would fit a
\* narrower form is accepted and decodes to itself.
C7_ReadVarIntDecodes ==
    (VarIntCalled /\ vi.offset < Len(data)
        /\ vi.offset + WidthOfPrefix(data[vi.offset + 1]) <= Len(data)) =>
        LET first == data[vi.offset + 1] IN
        /\ vi.err = NoErr
        /\ vi.n = WidthOfPrefix(first)
        /\ first < 253 => vi.value = <<first, 0, 0, 0>>
        /\ first = 253 =>
             vi.value = <<PayloadByte(1) + 256 * PayloadByte(2), 0, 0, 0>>
        /\ first = 254 =>
             vi.value = <<PayloadByte(1) + 256 * PayloadByte(2),
                          PayloadByte(3) + 256 * PayloadByte(4), 0, 0>>
        /\ first = 255 =>
             vi.value = <<PayloadByte(1) + 256 * PayloadByte(2),
                          PayloadByte(3) + 256 * PayloadByte(4),
                          PayloadByte(5) + 256 * PayloadByte(6),
                          PayloadByte(7) + 256 * PayloadByte(8)>>

\* the non-canonical FD 05 00 has been decoded to 5, consuming 3 bytes, at a
\* non-zero offset
C7_Witness ==
    /\ VarIntCalled
    /\ vi.offset = 1
    /\ Len(data) >= 4
    /\ SubSeq(data, 2, 4) = <<253, 5, 0>>
    /\ vi.value = U64FromNat(5)
    /\ vi.n = 3

\* the bytes a readVarInt call needs from its offset on: one for the prefix,
\* then what the prefix selects
VarIntNeeds ==
    IF vi.offset >= Len(data) THEN 1 ELSE WidthOfPrefix(data[vi.offset + 1])

\* C8: readVarInt fails exactly when fewer bytes remain from the offset than
\* the form selected by the prefix byte requires; a failure returns value 0
\* and count 0, a success consumes no more than the bytes remaining.
C8_ReadVarIntFailsIffShort ==
    VarIntCalled =>
        /\ (vi.err # NoErr) <=> (Len(data) - vi.offset < VarIntNeeds)
        /\ vi.err # NoErr => vi.value = U64Zero /\ vi.n = 0
        /\ vi.err = NoErr => vi.n >= 1 /\ vi.n <= Len(data) - vi.offset

\* a 0xFF prefix with exactly its eight payload bytes has been decoded
C8_Witness ==
    /\ VarIntCalled
    /\ vi.offset < Len(data)
    /\ data[vi.offset + 1] = 255
    /\ Len(data) - vi.offset = 9
    /\ vi.err = NoErr
    /\ vi.n = 9

\* C9: Parse on a buffer of fewer than 10 bytes fails with Field "transaction"
\* and Message "data too short" before it reads any field or allocates, and no
\* error Parse returns has the Field "version".
C9_ShortBufferRejectedFirst ==
    (Returned /\ st.inParse) =>
        /\ Len(data) < 10 =>
             /\ st.ret = [tx |-> Nil,
                          err |-> ParseError("transaction", -1, ErrNew("data too short"))]
             /\ st.log = <<>>
             /\ st.makes = <<>>
        /\ Failed => RetErr.Field.name # "version"

\* Parse has returned on a buffer of 4 to 9 bytes, which holds a whole version
C9_Witness ==
    /\ Returned
    /\ st.inParse
    /\ Len(data) >= 4
    /\ Len(data) < 10

\* the characters hex.DecodeString accepts
HexDigitChars ==
    {"0", "1", "2", "3", "4", "5", "6", "7", "8", "9",
     "a", "b", "c", "d", "e", "f", "A", "B", "C", "D", "E", "F"}

\* the string is made of hex digits and has an even length
WellFormedHex(str) ==
    /\ Len(str) % 2 = 0
    /\ \A k \in 1..Len(str) : str[k] \in HexDigitChars

\* C10: ParseHex enters Parse only on a non-empty, even-length string of hex
\* digits; the empty string fails with "empty hex string", any other malformed
\* string with Field "hex" and "invalid hex encoding", Parse not being called.
C10_HexCheckedBeforeParsing ==
    (entry = "ParseHex" /\ st.pc # "idle") =>
        /\ st.inParse <=> (hexStr # <<>> /\ WellFormedHex(hexStr))
        /\ hexStr = <<>> =>
             st.ret = [tx |-> Nil,
                       err |-> ParseError("transaction", -1, ErrNew("empty hex string"))]
        /\ ~WellFormedHex(hexStr) =>
             /\ Failed
             /\ RetErr.Field = [name |-> "hex", idx |-> -1]
             /\ RetErr.Message.fmt[1] = "invalid hex encoding"
             /\ st.log = <<>>

\* ParseHex has returned on a string that decodes to a whole transaction but
\* for a non-digit in its second byte
C10_Witness ==
    /\ entry = "ParseHex"
    /\ Failed
    /\ Len(hexStr) > 20
    /\ Len(hexStr) % 2 = 0
    /\ hexStr[3] \notin HexDigitChars
    /\ \A k \in 1..Len(hexStr) : k # 3 => hexStr[k] \in HexDigitChars

\* Parse has gone past the marker/flag step
PastMarker == st.inParse /\ st.log # <<>> /\ st.pc # "marker"

\* C11: Parse treats the transaction as SegWit exactly when bytes 4 and 5 are
\* 0x00, 0x01; it then consumes them and sets IsSegWit, Marker = 0x00 and
\* Flag = 0x01; otherwise it consumes nothing, leaves IsSegWit false and
\* Marker = Flag = 0, and reads the input count at offset 4.
C11_SegWitDetection ==
    PastMarker =>
        LET segwit == data[5] = 0 /\ data[6] = 1 IN
        /\ st.tx.IsSegWit <=> segwit
        /\ st.tx.Marker = 0
        /\ st.tx.Flag = (IF segwit THEN 1 ELSE 0)
        /\ LogOf("marker") # <<>> <=> segwit
        /\ st.pc = "input_count" => st.offset = (IF segwit THEN 6 ELSE 4)
        /\ LogOf("input_count") # <<>> =>
             LogOf("input_count")[1].from = (IF segwit THEN 6 ELSE 4)
        /\ Succeeded => RetTx.IsSegWit = segwit

\* a legacy transaction whose byte 4 equals the marker (input count 0) and
\* whose byte 5 is not the flag has been decoded
C11_Witness ==
    /\ Succeeded
    /\ data[5] = 0
    /\ data[6] # 1
    /\ ~RetTx.IsSegWit
    /\ RetTx.TxInCount = U64Zero

\* the place of a field kind in the wire layout
WireRank(field) ==
    CASE field = "version"      -> 1
      [] field = "marker"       -> 2
      [] field = "input_count"  -> 3
      [] field = "input"        -> 4
      [] field = "output_count" -> 5
      [] field = "output"       -> 6
      [] field = "witness"      -> 7
      [] OTHER                  -> 8

\* C12: the fields are read from strictly increasing, adjoining buffer
\* positions in the order version, marker/flag, input count, inputs, output
\* count, outputs, witnesses, locktime; the witness decoder runs only when
\* IsSegWit, once per declared input in input order, after every input and
\* output has been decoded and before the locktime is read.
C12_WireOrder ==
    st.inParse =>
        /\ \A k \in 1..Len(st.log) :
             /\ st.log[k].from < st.log[k].to
             /\ k = 1 => st.log[k].field = "version" /\ st.log[k].from = 0
             /\ k > 1 =>
                  /\ st.log[k].from = st.log[k - 1].to
                  /\ IF st.log[k].idx > 0
                     THEN /\ st.log[k - 1].field = st.log[k].field
                          /\ st.log[k - 1].idx = st.log[k].idx - 1
                     ELSE WireRank(st.log[k - 1].field) < WireRank(st.log[k].field)
        /\ (LogOf("witness") # <<>> \/ st.pc \in {"witness", "witness_items"}) =>
             /\ st.tx.IsSegWit
             /\ U64FromNat(Len(LogOf("input"))) = st.inputCount
             /\ LogOf("output_count") # <<>>
             /\ U64FromNat(Len(LogOf("output"))) = st.outputCount
        /\ st.pc = "witness_items" =>
             /\ st.i = Len(LogOf("witness"))
             /\ U64Lt(U64FromNat(st.i), st.inputCount)
             /\ LogOf("locktime") = <<>>
        /\ LogOf("locktime") # <<>> =>
             /\ U64FromNat(Len(LogOf("input"))) = st.inputCount
             /\ U64FromNat(Len(LogOf("output"))) = st.outputCount
             /\ Len(LogOf("witness")) = (IF st.tx.IsSegWit THEN Len(LogOf("input")) ELSE 0)

\* the second witness of a two-input, two-output SegWit transaction is being decoded
C12_Witness ==
    /\ st.pc = "witness_items"
    /\ st.i = 1
    /\ Len(LogOf("input")) = 2
    /\ Len(LogOf("output")) = 2

\* byte strings appended to a buffer
Trails == UNION { [1..n -> {0, 255}] : n \in 1..(MaxTrail + 1) }

\* C13: bytes after the locktime are ignored: when Parse succeeds on a buffer
\* it succeeds on that buffer followed by any bytes and returns a Transaction
\* equal in every field.
C13_TrailingBytesIgnored ==
    (st.inParse /\ Succeeded) =>
        \A t \in Trails :
            \A f \in Run(data \o t, EntryFrame) :
                /\ f.pc = "done"
                /\ f.ret = st.ret

\* a buffer with bytes after its locktime has been decoded, and so has the
\* buffer without them, to the same Transaction
C13_Witness ==
    /\ st.inParse
    /\ Succeeded
    /\ st.offset + 4 < Len(data)
    /\ \A f \in Run(Slice(data, 0, st.offset + 4), EntryFrame) : f.pc = "done" /\ f.ret = st.ret

\* an activation record of Parse whose slots hold what an earlier call on the
\* same stack left in them
Stale(s) == [s EXCEPT !.pc = "start", !.inParse = TRUE, !.makes = <<>>, !.log = <<>>]

\* the ends of another decode of the input of this run, in a fresh activation
\* record and in a stale one
DecodedAgain ==
    IF entry = "ParseHex"
    THEN LET r == StepParseHex(hexStr, st)
         IN  IF r.frame.pc = "done" THEN {r.frame}
             ELSE Run(r.data, r.frame) \cup Run(r.data, Stale(st))
    ELSE Run(data, EntryFrame) \cup Run(data, Stale(st))

C15_LockTime ==
    [][st.pc = "locktime" =>
         IF Len(data) - st.offset < 4
         THEN st'.ret = [tx |-> Nil,
                         err |-> ParseError("locktime", -1, ErrNew("unexpected end of data"))]
              /\ st'.pc = "done"
         ELSE /\ st'.pc = "done"
              /\ st'.ret.err = Nil
              /\ st'.ret.tx[1].LockTime =
                   << data[st.offset + 1] + 256 * data[st.offset + 2],
                      data[st.offset + 3] + 256 * data[st.offset + 4] >>
              /\ st'.ret.tx[1] = [st.tx EXCEPT !.LockTime = st'.ret.tx[1].LockTime]
              /\ st'.log[Len(st'.log)] =
                   [field |-> "locktime", idx |-> -1, from |-> st.offset, to |-> st.offset + 4]
    ]_vars

\* a decode has failed at the locktime with one to three bytes left
C15_Witness ==
    /\ Failed
    /\ RetErr.Field.name = "locktime"
    /\ st.offset < Len(data)
    /\ Len(LogOf("output")) = 1

\* a transaction whose locktime is the last four bytes has been decoded
C15_WitnessExactFit ==
    /\ Succeeded
    /\ st.inParse
    /\ st.offset + 4 = Len(data)
    /\ RetTx.LockTime = <<112, 46>>

\* the names a ParseError's Field is built from
FieldNames ==
    {"transaction", "hex", "input_count", "input", "output_count", "output", "witness", "locktime"}

\* the VarInt that would start at offset o of the buffer is cut short by its end
VarIntCutAt(o) ==
    /\ o <= Len(data)
    /\ o < Len(data) => Len(data) - o < WidthOfPrefix(data[o + 1])

\* the offset after k witness items laid out from offset p
RECURSIVE AfterItems(_, _)
AfterItems(p, k) ==
    IF k = 0 THEN p
    ELSE LET v == readVarInt(data, p) IN AfterItems(p + v.n + U64ToNat(v.value), k - 1)

\* the offset of the length of the witness item the decode stopped at
ItemLengthAt == AfterItems(st.offset + readVarInt(data, st.offset).n, st.w.j)

\* C19: every error returned is a ParseError whose Field is non-empty and names
\* the field decoding stopped at (transaction, hex, input_count, input[i],
\* output_count, output[i], witness[i], locktime) and whose Message is
\* non-empty; a truncated VarInt is reported with its role: the input and
\* output counts by the Field, a script length and a witness item length (and
\* item count) by the Message.
C19_ErrorsNameTheField ==
    (entry \in {"Parse", "ParseHex"} /\ Failed) =>
        LET name == RetErr.Field.name
            idx  == RetErr.Field.idx
            msg  == RetErr.Message.fmt
            insDone  == LogOf("input_count") # <<>>
                          /\ U64FromNat(Len(LogOf("input"))) = st.inputCount
            outsDone == LogOf("output_count") # <<>>
                          /\ U64FromNat(Len(LogOf("output"))) = st.outputCount
        IN
        /\ st.ret.tx = Nil
        /\ DOMAIN RetErr = {"Field", "Message"}
        /\ name \in FieldNames
        /\ idx >= 0 <=> name \in {"input", "output", "witness"}
        /\ msg # <<>>
        /\ \A k \in 1..Len(msg) : msg[k] # ""
        /\ name \in {"transaction", "hex"} <=> st.log = <<>>
        /\ name = "hex" <=> ~st.inParse /\ hexStr # <<>>
        /\ name = "input_count" <=>
             st.log # <<>> /\ LogOf("input_count") = <<>>
        /\ name = "input_count" =>
             VarIntCutAt(st.offset) /\ RetErr.Message = readVarInt(data, st.offset).err
        /\ name = "input" <=>
             LogOf("input_count") # <<>> /\ ~insDone
        /\ name = "input" =>
             /\ idx = Len(LogOf("input"))
             /\ (Len(data) >= st.offset + 36 /\ VarIntCutAt(st.offset + 36)) <=>
                  (Len(msg) = 2 /\ msg[1] = "failed to read script length")
        /\ name = "output_count" <=>
             insDone /\ LogOf("output_count") = <<>>
        /\ name = "output_count" =>
             VarIntCutAt(st.offset) /\ RetErr.Message = readVarInt(data, st.offset).err
        /\ name = "output" <=>
             insDone /\ LogOf("output_count") # <<>> /\ ~outsDone
        /\ name = "output" =>
             /\ idx = Len(LogOf("output"))
             /\ (Len(data) >= st.offset + 8 /\ VarIntCutAt(st.offset + 8)) <=>
                  (Len(msg) = 2 /\ msg[1] = "failed to read script length")
        /\ name = "witness" <=>
             insDone /\ outsDone /\ st.tx.IsSegWit /\ Len(LogOf("witness")) < Len(LogOf("input"))
        /\ name = "witness" =>
             /\ idx = Len(LogOf("witness"))
             /\ VarIntCutAt(st.offset) <=>
                  (Len(msg) = 2 /\ msg[1] = "failed to read witness item count")
             /\ (~VarIntCutAt(st.offset) /\ VarIntCutAt(ItemLengthAt)) <=>
                  (/\ Len(msg) = 2
                   /\ msg[1] = "failed to read witness item %d length"
                   /\ RetErr.Message.arg = st.w.j)
        /\ name = "locktime" <=>
             /\ insDone
             /\ outsDone
             /\ Len(LogOf("witness")) = (IF st.tx.IsSegWit THEN Len(LogOf("input")) ELSE 0)

\* a decode has failed on the truncated length of a witness item of the second input
C19_Witness ==
    /\ Failed
    /\ RetErr.Field = [name |-> "witness", idx |-> 1]
    /\ RetErr.Message.fmt[1] = "failed to read witness item %d length"

\* a decode has failed on the truncated length of a script of an output
C19_WitnessScriptLength ==
    /\ Failed
    /\ RetErr.Field.name = "output"
    /\ RetErr.Message.fmt[1] = "failed to read script length"

\* C20: decoding the SegWit sample of the tests succeeds with Version 2,
\* IsSegWit, TxInCount 1, TxOutCount 11, TxIns[0].PreviousOutIdx 9, Sequence
\* 0xfffffffe, ScriptSigLength 0, TxOuts[0].Value 10000, Witnesses[0] of
\* exactly two items of 71 and 33 bytes, and LockTime 0x002e0070.
C20_SampleDecodes ==
    (entry = "ParseHex" /\ hexStr = sampleTxHex /\ st.pc \in {"done", "crashed"}) =>
        /\ Succeeded
        /\ RetTx.Version = 2
        /\ RetTx.IsSegWit
        /\ RetTx.TxInCount = U64FromNat(1)
        /\ RetTx.TxOutCount = U64FromNat(11)
        /\ Len(RetTx.TxIns.items) = 1
        /\ Len(RetTx.TxOuts.items) = 11
        /\ RetTx.TxIns.items[1].PreviousOutIdx = <<9, 0>>
        /\ RetTx.TxIns.items[1].Sequence = <<Limb - 2, Limb - 1>>
        /\ RetTx.TxIns.items[1].ScriptSigLength = U64Zero
        /\ RetTx.TxIns.items[1].ScriptSig = <<>>
        /\ RetTx.TxOuts.items[1].Value = U64FromNat(10000)
        /\ Len(RetTx.Witnesses.items) = 1
        /\ Len(RetTx.Witnesses.items[1].Items.items) = 2
        /\ Len(RetTx.Witnesses.items[1].Items.items[1]) = 71
        /\ Len(RetTx.Witnesses.items[1].Items.items[2]) = 33
        /\ RetTx.LockTime = <<7 * 16, 2 * 16 + 14>>

\* ParseHex has decoded the sample to its last byte
C20_Witness ==
    /\ entry = "ParseHex"
    /\ hexStr = sampleTxHex
    /\ Succeeded
    /\ st.offset + 4 = Len(data)
    /\ Len(LogOf("output")) = 11

\* C16: the decoded Transaction is self-contained and Parse leaves its input
\* as it was: no statement of Parse writes to the buffer, and after Parse has
\* returned, overwriting any byte of the buffer changes no field of the
\* returned Transaction (its byte slices are copies, not views of the buffer).
C16_ResultOwnsItsBytes ==
    [][/\ (st.inParse /\ st'.pc # "reused") => data' = data
       /\ st'.pc = "reused" => data' # data /\ st'.ret = st.ret
    ]_vars

\* the caller has overwritten the byte of the buffer the one-byte ScriptSig of
\* the first input was decoded from
C16_Witness ==
    /\ st.pc = "reused"
    /\ Len(RetTx.TxIns.items) >= 1
    /\ Len(RetTx.TxIns.items[1].ScriptSig) = 1
    /\ RetTx.TxIns.items[1].ScriptSig[1] # data[LogOf("input")[1].to - 4]

\* the goroutine's call of Parse is over: returned, panicked, or stopped
Ended(s) == s.pc \in {"done", "crashed", "killed"}

\* C17: two invocations of Parse running at the same time on buffers of their
\* own, under every interleaving of their statements and with no lock, each
\* end as they end alone; a step of one reads and writes only its own buffer
\* and activation record.
C17_ConcurrentParsesIndependent ==
    /\ [](entry = "go Parse" =>
            /\ Ended(st) => st \in Run(data, EntryFrame)
            /\ Ended(peer.st) => peer.st \in Run(peer.data, EntryFrame))
    /\ [][entry = "go Parse" =>
            /\ data' = data
            /\ peer'.data = peer.data
            /\ st' # st => peer' = peer /\ st' \in Step(data, st)
            /\ peer' # peer => st' = st /\ peer'.st \in Step(peer.data, peer.st)
       ]_vars

\* what holds of the two invocations: they share no state, so that each ends as
\* it ends alone unless the panic of the other ends the program first
ParsesShareNoState ==
    /\ [](entry = "go Parse" =>
            /\ st.pc \in {"done", "crashed"} => st \in Run(data, EntryFrame)
            /\ peer.st.pc \in {"done", "crashed"} => peer.st \in Run(peer.data, EntryFrame)
            /\ st.pc = "killed" => peer.st.pc = "crashed"
            /\ peer.st.pc = "killed" => st.pc = "crashed")
    /\ [][entry = "go Parse" =>
            /\ data' = data
            /\ peer'.data = peer.data
            /\ (st' # st /\ st'.pc # "killed") => peer' = peer /\ st' \in Step(data, st)
            /\ (peer' # peer /\ peer'.st.pc # "killed") =>
                 st' = st /\ peer'.st \in Step(peer.data, peer.st)
       ]_vars

\* C18: GetTxIDHex returns exactly 64 hex characters; they decode to 32 bytes
\* that are PreviousTxID in reverse order (byte k is PreviousTxID[31-k]), so
\* reversing them gives the stored id back; the call leaves PreviousTxID as it was.
C18_TxIDHexReversed ==
    shown.called =>
        LET dec == hexDecodeString(shown.ret) IN
        /\ Len(shown.ret) = 64
        /\ \A k \in 1..Len(shown.ret) : shown.ret[k] \in HexDigitChars
        /\ dec.err = NoErr
        /\ Len(dec.bytes) = 32
        /\ \A k \in 0..31 : dec.bytes[k + 1] = shown.before.PreviousTxID[(31 - k) + 1]
        /\ [k \in 1..32 |-> dec.bytes[33 - k]] = shown.before.PreviousTxID
        /\ shown.t = shown.before

\* GetTxIDHex has been called on the id of the sample's input, fb72...469e,
\* and the string begins with the digits of its last byte
C18_Witness ==
    /\ shown.called
    /\ shown.t.PreviousTxID[1] = 251
    /\ shown.t.PreviousTxID[32] = 158
    /\ SubSeq(shown.ret, 1, 2) = <<"9", "e">>

\* a section of declared length n (a uint64) that starts at offset o reaches
\* past the end of the buffer, in exact arithmetic
SectionPastEnd(o, n) == ~U64IsSmall(n) \/ o + U64ToNat(n) > Len(data)

\* the bytes at offset o are not a whole input: txid, index, script length,
\* script or sequence is cut short by the end of the buffer
InputCutAt(o) ==
    \/ o + 36 > Len(data)
    \/ VarIntCutAt(o + 36)
    \/ LET v == readVarInt(data, o + 36)
       IN  \/ SectionPastEnd(o + 36 + v.n, v.value)
           \/ o + 36 + v.n + U64ToNat(v.value) + 4 > Len(data)

\* the bytes at offset o are not a whole output
OutputCutAt(o) ==
    \/ o + 8 > Len(data)
    \/ VarIntCutAt(o + 8)
    \/ LET v == readVarInt(data, o + 8) IN SectionPastEnd(o + 8 + v.n, v.value)

\* one of the next k witness items laid out from offset p is cut short
RECURSIVE ItemsCutAt(_, _)
ItemsCutAt(p, k) ==
    IF k = 0 THEN FALSE
    ELSE IF p > Len(data) \/ VarIntCutAt(p) THEN TRUE
    ELSE LET v == readVarInt(data, p)
         IN  IF SectionPastEnd(p + v.n, v.value) THEN TRUE
             ELSE ItemsCutAt(p + v.n + U64ToNat(v.value), k - 1)

\* the bytes at offset o are not a whole witness stack
WitnessCutAt(o) ==
    \/ VarIntCutAt(o)
    \/ LET v == readVarInt(data, o)
           k == IF U64IsSmall(v.value) /\ U64ToNat(v.value) <= Len(data)
                THEN U64ToNat(v.value) ELSE Len(data) + 1
       IN  ItemsCutAt(o + v.n, k)

\* C21: decoding is fail-fast in wire order: an error with Field input[i],
\* output[i] or witness[i] names the smallest index of that kind whose record
\* cannot be decoded; every field before it in wire order was decoded (the
\* records 0..i-1 of that kind and all records of the earlier kinds) and the
\* cursor stands at the record; nothing after it is read; a decode that gets
\* past the inputs (the outputs, the witnesses) has decoded every one of them.
C21_FailFastInWireOrder ==
    (st.inParse /\ Returned) =>
        LET name == IF Failed THEN RetErr.Field.name ELSE "none"
            i    == IF Failed THEN RetErr.Field.idx ELSE -1
            kind == CASE name = "input"   -> "input"
                      [] name = "output"  -> "output"
                      [] name = "witness" -> "witness"
                      [] OTHER            -> "none"
            insDone  == U64FromNat(Len(LogOf("input"))) = st.inputCount
            outsDone == U64FromNat(Len(LogOf("output"))) = st.outputCount
        IN
        /\ kind # "none" =>
             /\ Len(LogOf(kind)) = i
             /\ \A k \in 1..i : LogOf(kind)[k].idx = k - 1
             /\ st.log[Len(st.log)].to = st.offset
             /\ \A k \in 1..Len(st.log) : WireRank(st.log[k].field) <= WireRank(kind)
             /\ LogOf("locktime") = <<>>
             /\ U64Lt(U64FromNat(i), st.inputCount) \/ kind = "output"
             /\ kind = "output" => U64Lt(U64FromNat(i), st.outputCount)
        /\ name = "input" => InputCutAt(st.offset)
        /\ name = "output" => insDone /\ OutputCutAt(st.offset)
        /\ name = "witness" => insDone /\ outsDone /\ WitnessCutAt(st.offset)
        /\ \A k \in 1..Len(LogOf("input")) : ~InputCutAt(LogOf("input")[k].from)
        /\ \A k \in 1..Len(LogOf("output")) : ~OutputCutAt(LogOf("output")[k].from)
        /\ \A k \in 1..Len(LogOf("witness")) : ~WitnessCutAt(LogOf("witness")[k].from)
        /\ (LogOf("input_count") # <<>> /\ name # "input") => insDone
        /\ (LogOf("output_count") # <<>> /\ name # "output") => outsDone
        /\ (Succeeded \/ name = "locktime") =>
             Len(LogOf("witness")) = (IF st.tx.IsSegWit THEN Len(LogOf("input")) ELSE 0)

\* the decode of a SegWit transaction of two inputs has stopped at its second
\* output, both inputs and the first output decoded
C21_Witness ==
    /\ Failed
    /\ RetErr.Field = [name |-> "output", idx |-> 1]
    /\ Len(LogOf("input")) = 2
    /\ Len(LogOf("output")) = 1
    /\ st.tx.IsSegWit

\* the offset the records of a kind begin at: the end of their count
RecordsStart(countField) == LogOf(countField)[1].to

\* C22: a decoded input takes exactly 32 + 4 + v + L + 4 bytes and a decoded
\* output exactly 8 + v + L, v being the width of the script-length VarInt and
\* L the declared length; that is the count parseTxIn and parseTxOut report and
\* the amount Parse moves its cursor by, so that each record begins at the byte
\* after the previous one and the cursor stands at the end of the last one.
C22_ExactConsumption ==
    st.inParse =>
        /\ \A k \in 1..Len(LogOf("input")) :
             LET e   == LogOf("input")[k]
                 in  == st.tx.TxIns.items[k]
                 v   == WidthOfPrefix(data[e.from + 36 + 1])
                 len == 32 + 4 + v + U64ToNat(in.ScriptSigLength) + 4
             IN  /\ U64IsSmall(in.ScriptSigLength)
                 /\ e.to - e.from = len
                 /\ parseTxIn(data, e.from).n = len
                 /\ e.from = (IF k = 1 THEN RecordsStart("input_count")
                                       ELSE LogOf("input")[k - 1].to)
        /\ \A k \in 1..Len(LogOf("output")) :
             LET e   == LogOf("output")[k]
                 out == st.tx.TxOuts.items[k]
                 v   == WidthOfPrefix(data[e.from + 8 + 1])
                 len == 8 + v + U64ToNat(out.ScriptPubKeyLen)
             IN  /\ U64IsSmall(out.ScriptPubKeyLen)
                 /\ e.to - e.from = len
                 /\ parseTxOut(data, e.from).n = len
                 /\ e.from = (IF k = 1 THEN RecordsStart("output_count")
                                       ELSE LogOf("output")[k - 1].to)
        /\ st.pc = "inputs" =>
             st.offset = (IF LogOf("input") = <<>> THEN RecordsStart("input_count")
                          ELSE LogOf("input")[Len(LogOf("input"))].to)
        /\ st.pc = "outputs" =>
             st.offset = (IF LogOf("output") = <<>> THEN RecordsStart("output_count")
                          ELSE LogOf("output")[Len(LogOf("output"))].to)

\* two inputs and two outputs have been decoded whose one-byte scripts have
\* their length in a nine-byte VarInt: 32 + 4 + 9 + 1 + 4 and 8 + 9 + 1 bytes
C22_Witness ==
    /\ Succeeded
    /\ Len(LogOf("input")) = 2
    /\ Len(LogOf("output")) = 2
    /\ LogOf("input")[2].to - LogOf("input")[2].from = 50
    /\ LogOf("output")[2].to - LogOf("output")[2].from = 18

\* C23: when parseTxIn or parseTxOut fails (a fixed-width field is cut short,
\* or the declared script length reaches past the end of the buffer) the record
\* it returns with the error is the zero record, no field populated, and the
\* consumed count is 0.
C23_FailureReturnsZeroRecord ==
    /\ (st.pc = "inputs" /\ U64Lt(U64FromNat(st.i), st.inputCount)) =>
         LET r == parseTxIn(data, st.offset)
         IN  (r.err # NoErr /\ r.panic = "") => r.txIn = ZeroTxIn /\ r.n = 0
    /\ (st.pc = "outputs" /\ U64Lt(U64FromNat(st.i), st.outputCount)) =>
         LET r == parseTxOut(data, st.offset)
         IN  (r.err # NoErr /\ r.panic = "") => r.txOut = ZeroTxOut /\ r.n = 0

\* what the decoders do return with an error: a consumed count of 0 and the
\* record with the fields read before the failure
FailureReturnsFieldsReadSoFar ==
    /\ (st.pc = "inputs" /\ U64Lt(U64FromNat(st.i), st.inputCount)) =>
         LET r == parseTxIn(data, st.offset)
         IN  (r.err # NoErr /\ r.panic = "") =>
                /\ r.n = 0
                /\ r.txIn.Sequence = ZeroTxIn.Sequence
                /\ st.offset + 32 <= Len(data) <=> r.txIn.PreviousTxID # ZeroTxIn.PreviousTxID
    /\ (st.pc = "outputs" /\ U64Lt(U64FromNat(st.i), st.outputCount)) =>
         LET r == parseTxOut(data, st.offset)
         IN  (r.err # NoErr /\ r.panic = "") =>
                /\ r.n = 0
                /\ st.offset + 8 <= Len(data) <=> r.txOut.Value # ZeroTxOut.Value

\* the first witness item, counted from j at offset p, that the end of the
\* buffer cuts short, and whether it cuts its length or its bytes
RECURSIVE FirstCutItem(_, _)
FirstCutItem(p, j) ==
    IF p >= Len(data) \/ VarIntCutAt(p) THEN [j |-> j, at |-> p, part |-> "length"]
    ELSE LET v == readVarInt(data, p)
         IN  IF SectionPastEnd(p + v.n, v.value) THEN [j |-> j, at |-> p, part |-> "bytes"]
             ELSE FirstCutItem(p + v.n + U64ToNat(v.value), j + 1)

\* C24: when the witness of input i cannot be decoded, the ParseError has Field
\* witness[i]; when it is item j that fails, its length VarInt cut short or its
\* declared length reaching past the end of the buffer, the Message names item
\* j; when it is the item count, the Message says so.
C24_WitnessErrorsNameBothIndices ==
    (Failed /\ RetErr.Field.name = "witness") =>
        LET i == RetErr.Field.idx
            start == IF LogOf("output") = <<>> THEN LogOf("output_count")[1].to
                     ELSE LogOf("output")[Len(LogOf("output"))].to
            at == IF i = 0 THEN start ELSE LogOf("witness")[i].to
        IN
        /\ i = Len(LogOf("witness"))
        /\ i < Len(LogOf("input"))
        /\ IF VarIntCutAt(at)
           THEN RetErr.Message =
                    ErrWrap("failed to read witness item count", readVarInt(data, at).err)
           ELSE LET c == FirstCutItem(at + readVarInt(data, at).n, 0)
                IN  /\ U64Lt(U64FromNat(c.j), readVarInt(data, at).value)
                    /\ RetErr.Message =
                         (IF c.part = "length"
                          THEN ErrWrapf("failed to read witness item %d length", c.j,
                                        readVarInt(data, c.at).err)
                          ELSE ErrNewf("unexpected end of data for witness item %d", c.j))

\* the witness of the first input declares more items than the buffer holds:
\* item 0 is decoded and the decode fails at item 1 of witness[0]
C24_Witness ==
    /\ Failed
    /\ RetErr.Field = [name |-> "witness", idx |-> 0]
    /\ RetErr.Message.arg = 1

\* the decode has failed at item 0 of the witness of the second input
C24_WitnessSecondInput ==
    /\ Failed
    /\ RetErr.Field = [name |-> "witness", idx |-> 1]
    /\ RetErr.Message.arg = 0

\* the cursor of the decoder: parseWitness's while it runs, Parse's otherwise
Cursor(s) == IF s.pc = "witness_items" THEN s.w.offset ELSE s.offset

\* C25: Parse terminates on every buffer, and the loop iterations it executes
\* (inputs + outputs + witnesses + witness items) are at most len(data) whatever
\* counts the buffer declares: the cursor never moves backward and every
\* iteration that does not fail moves it forward by at least one byte.
C25_TerminatesWithinInputSize ==
    /\ [](st.inParse => st.iters <= Len(data) /\ Cursor(st) <= Len(data))
    /\ [][st.inParse =>
            /\ st'.iters \in {st.iters, st.iters + 1}
            /\ st'.offset >= st.offset
            /\ st'.pc \notin {"done", "crashed"} =>
                 /\ Cursor(st') >= Cursor(st)
                 /\ st'.iters = st.iters + 1 => Cursor(st') > Cursor(st)
       ]_vars
    /\ <>(st.pc \in {"done", "crashed"})

\* a buffer far shorter than 65535 bytes declares 65535 inputs; the decode has
\* ended in its second iteration
C25_Witness ==
    /\ Failed
    /\ st.inputCount = U64FromNat(Limb - 1)
    /\ st.iters = 2
    /\ st.iters < Len(data)

\* the list allocations of Parse and parseWitness: make([]TxIn, inputCount),
\* make([]TxOut, outputCount), make([]TxWitness, inputCount), make([][]byte, itemCount)
ListMakes == SelectSeq(st.makes, LAMBDA m : m.what \in {"TxIns", "TxOuts", "Witnesses", "Items"})

\* C26: the memory Parse allocates is bounded by the input size: the number of
\* elements it allocates for the input list, the output list, the witness list
\* and the item list of a witness never exceeds the bytes remaining in the
\* buffer at the point of the allocation, however large the declared count.
C26_ListAllocationBoundedByInput ==
    \A k \in 1..Len(ListMakes) :
        /\ U64IsSmall(ListMakes[k].n)
        /\ U64ToNat(ListMakes[k].n) <= Len(data) - ListMakes[k].offset

\* Parse entered past its length test: lines 106-107 done, line 109 next
PastFloor == [EntryFrame EXCEPT !.pc = "version"]

\* C27: the 10-byte floor is tight and turns away nothing the decoder proper
\* would accept: a successful Parse has consumed at least 10 bytes, at least 12
\* when IsSegWit; the 10-byte buffer of a version, input count 0x00, output
\* count 0x00 and a locktime decodes to a Transaction with no inputs, no
\* outputs and no witnesses; and a buffer the floor turns away fails in the
\* statements after the floor as well.
C27_FloorIsTight ==
    /\ (st.inParse /\ Succeeded) =>
         /\ LogOf("locktime")[1].to >= 10
         /\ RetTx.IsSegWit => LogOf("locktime")[1].to >= 12
         /\ LogOf("locktime")[1].to <= Len(data)
    /\ (st.inParse /\ Len(data) = 10 /\ data[5] = 0 /\ data[6] = 0
          /\ st.pc \in {"done", "crashed"}) =>
         /\ Succeeded
         /\ ~RetTx.IsSegWit
         /\ RetTx.TxInCount = U64Zero /\ RetTx.TxIns = MakeSlice(U64Zero)
         /\ RetTx.TxOutCount = U64Zero /\ RetTx.TxOuts = MakeSlice(U64Zero)
         /\ RetTx.Witnesses = NilSlice
         /\ RetTx.Version = Int32Of(LEUint32(SubSeq(data, 1, 4)))
         /\ RetTx.LockTime = LEUint32(SubSeq(data, 7, 10))
    /\ (st.inParse /\ Failed /\ RetErr.Field.name = "transaction") =>
         /\ Len(data) < 10
         /\ \A f \in Run(data, PastFloor) : f.pc = "done" /\ f.ret.err # Nil /\ f.ret.tx = Nil

\* the buffer of exactly 10 bytes has been decoded
C27_Witness ==
    /\ st.inParse
    /\ Succeeded
    /\ Len(data) = 10
    /\ st.iters = 0

\* a buffer of 9 bytes has been turned away by the floor
C27_WitnessNineBytes ==
    /\ st.inParse
    /\ Failed
    /\ RetErr.Field.name = "transaction"
    /\ Len(data) = 9

\* the legacy encodings of a transaction with no input and one output: byte 4
\* is the input count 0x00, byte 5 the output count 0x01
LegacyZeroInOneOut ==
    { TxBytes(FALSE, 0, 1, sl, 0, 1, NoOverride) : sl \in 0..MaxScriptLen }

\* the entry of the read log for a field that is read once
ReadAt(field) == [from |-> LogOf(field)[1].from, to |-> LogOf(field)[1].to]

\* C28: a legacy encoding with input count byte 0x00 and output count byte
\* 0x01 is never decoded as legacy: bytes 4 and 5 are then the SegWit marker
\* and flag, Parse takes the SegWit branch and reads the input count at byte
\* 6, and no successful result has IsSegWit false with TxInCount 0 read from
\* byte 4 and TxOutCount 1 read from byte 5.
C28_ZeroInputLegacyReadAsSegWit ==
    /\ (PastMarker /\ Len(data) >= 6 /\ data[5] = 0 /\ data[6] = 1) =>
         /\ st.tx.IsSegWit
         /\ ReadAt("marker") = [from |-> 4, to |-> 6]
         /\ LogOf("input_count") # <<>> => ReadAt("input_count").from = 6
         /\ Succeeded => RetTx.IsSegWit
    /\ ~ /\ Succeeded
         /\ ~RetTx.IsSegWit
         /\ RetTx.TxInCount = U64Zero
         /\ ReadAt("input_count") = [from |-> 4, to |-> 5]
         /\ RetTx.TxOutCount = U64FromNat(1)
         /\ ReadAt("output_count") = [from |-> 5, to |-> 6]
    /\ (data \in LegacyZeroInOneOut /\ st.inParse /\ st.pc \in {"done", "crashed"}) =>
         ~(Succeeded /\ Len(RetTx.TxIns.items) = 0 /\ Len(RetTx.TxOuts.items) = 1)

\* Parse has finished on a legacy encoding with no input and one output, and
\* took the SegWit branch
C28_Witness ==
    /\ data \in LegacyZeroInOneOut
    /\ st.inParse
    /\ st.pc \in {"done", "crashed"}
    /\ st.tx.IsSegWit
    /\ ReadAt("marker") = [from |-> 4, to |-> 6]

\* the two spellings of the hex digits
DigitCases == {HexLower, HexUpper}

\* C29: ParseHex and Parse agree: for a non-empty buffer b, ParseHex on the hex
\* text of b, in lower-case or upper-case digits, hands exactly b to Parse and
\* ends with the Transaction or the ParseError that Parse(b) ends with; the
\* empty buffer is the one divergence, "empty hex string" from ParseHex and
\* "data too short" from Parse.
C29_ParseHexAgreesWithParse ==
    /\ (entry = "Parse" /\ st.pc = "start" /\ data # <<>>) =>
         \A dg \in DigitCases :
            StepParseHex(ToHex(data, dg), IdleFrame) = [frame |-> st, data |-> data]
    /\ (entry = "ParseHex" /\ st.pc \in {"done", "crashed"}) =>
         \A b \in HexBuffers \ {<<>>} : \A dg \in DigitCases :
            hexStr = ToHex(b, dg) =>
               /\ data = b
               /\ st \in Run(b, EntryFrame)
               /\ \A f \in Run(b, EntryFrame) : f.ret = st.ret /\ f.pc = st.pc
    /\ (entry = "ParseHex" /\ hexStr = <<>> /\ st.pc # "idle") =>
         /\ Failed
         /\ ~st.inParse
         /\ RetErr = ParseError("transaction", -1, ErrNew("empty hex string"))[1]
    /\ (entry = "Parse" /\ data = <<>> /\ st.pc # "start") =>
         /\ Failed
         /\ RetErr = ParseError("transaction", -1, ErrNew("data too short"))[1]

\* ParseHex has decoded the upper-case text of a SegWit transaction
C29_Witness ==
    /\ entry = "ParseHex"
    /\ hexStr = ToHex(TxBytes(TRUE, 1, 1, 1, 1, 1, NoOverride), HexUpper)
    /\ Succeeded
    /\ RetTx.IsSegWit

\* ParseHex has returned the error of Parse on the text of a short buffer
C29_WitnessError ==
    /\ entry = "ParseHex"
    /\ hexStr = ToHex(<<2, 0, 0, 0>>, HexLower)
    /\ Failed
    /\ RetErr.Message = ErrNew("data too short")

---------------------------------------------------------------------------
(* internal/farming: goroutines calling Onboard and UpdateConfig on one Farmer *)

NumGoroutines == 2

Goroutines == 1..NumGoroutines

PayoutDaily == "daily"
PayoutWeekly == "weekly"
PayoutMonthly == "monthly"

paystringSeparator == "$"

\* errors.New(msg); nil is Nil
errorsNew(msg) == <<msg>>

\* payment.ValidatePaystring: strings.Split on the separator gives one part
\* more than there are separators; the parts are checked in turn
ValidatePaystring(paystring) ==
    LET seps == {k \in 1..Len(paystring) : paystring[k] = paystringSeparator}
        at == CHOOSE k \in seps : TRUE
        user == SubSeq(paystring, 1, at - 1)
        domain == SubSeq(paystring, at + 1, Len(paystring))
    IN  IF paystring = <<>> THEN errorsNew("paystring cannot be empty")
        ELSE IF Cardinality(seps) + 1 # 2
        THEN errorsNew("paystring must contain exactly one '$' separator")
        ELSE IF user = <<>> THEN errorsNew("paystring user portion cannot be empty")
        ELSE IF domain = <<>> THEN errorsNew("paystring domain portion cannot be empty")
        ELSE IF \A k \in 1..Len(domain) : domain[k] # "."
        THEN errorsNew("paystring domain must contain at least one '.'")
        ELSE Nil

\* New(): daily payouts, not enabled, not onboarded, mutex free
New ==
    [mu |-> 0,
     config |-> [PayoutSchedule |-> PayoutDaily, MinimumPayout |-> 0, Enabled |-> FALSE],
     onboarded |-> FALSE]

NewWithConfig(config) == [mu |-> 0, config |-> config, onboarded |-> FALSE]

\* the configurations passed to NewWithConfig and UpdateConfig
Configs ==
    { [PayoutSchedule |-> PayoutWeekly, MinimumPayout |-> 10, Enabled |-> FALSE],
      [PayoutSchedule |-> PayoutMonthly, MinimumPayout |-> 0, Enabled |-> TRUE] }

\* the paystrings passed to Onboard: "u$d.c", "", "ud.c", "u$d", "$d.c", "u$"
Paystrings ==
    { <<"u", "$", "d", ".", "c">>, <<>>, <<"u", "d", ".", "c">>, <<"u", "$", "d">>,
      <<"$", "d", ".", "c">>, <<"u", "$">> }

\* a goroutine that is not inside a call
IdleCall ==
    [pc |-> "idle", op |-> "", paystring |-> <<>>, config |-> <<>>,
     ret |-> Nil, wrote |-> FALSE]

InitFarmer ==
    /\ entry = "Farmer"
    /\ hexStr = <<>>
    /\ data = <<>>
    /\ st = IdleFrame
    /\ vi = NoVarInt
    /\ peer = NoPeer
    /\ shown = NoCall
    /\ farmer \in {New} \cup { NewWithConfig(c) : c \in Configs }
    /\ calls = [g \in Goroutines |-> IdleCall]
    /\ wins = 0

Outside(g) == calls[g].pc \in {"idle", "returned"}

\* the call returns err to its caller without having taken the lock
ReturnNow(g, err) == calls' = [calls EXCEPT ![g].pc = "returned", ![g].ret = err]

\* return err inside the critical section: the deferred Unlock is still to run
ReturnLocked(g, err) == calls' = [calls EXCEPT ![g].pc = "unlock", ![g].ret = err]

\* f.Onboard(paystring) is called
CallOnboard(g) ==
    /\ entry = "Farmer"
    /\ Outside(g)
    /\ \E p \in Paystrings :
         calls' = [calls EXCEPT ![g] = [IdleCall EXCEPT !.pc = "o61", !.op = "Onboard",
                                                        !.paystring = p]]
    /\ UNCHANGED <<entry, hexStr, data, st, vi, peer, shown, farmer, wins>>

\* Onboard lines 61-68: the paystring is checked before the lock is taken
OnboardValidate(g) ==
    /\ calls[g].pc = "o61"
    /\ IF calls[g].paystring = <<>>
       THEN ReturnNow(g, errorsNew("paystring is required for onboarding"))
       ELSE IF ValidatePaystring(calls[g].paystring) # Nil
       THEN ReturnNow(g, ValidatePaystring(calls[g].paystring))
       ELSE calls' = [calls EXCEPT ![g].pc = "lock"]
    /\ UNCHANGED <<entry, hexStr, data, st, vi, peer, shown, farmer, wins>>

\* f.UpdateConfig(config) is called
CallUpdateConfig(g) ==
    /\ entry = "Farmer"
    /\ Outside(g)
    /\ \E c \in Configs :
         calls' = [calls EXCEPT ![g] = [IdleCall EXCEPT !.pc = "lock", !.op = "UpdateConfig",
                                                        !.config = c]]
    /\ UNCHANGED <<entry, hexStr, data, st, vi, peer, shown, farmer, wins>>

\* f.mu.Lock() taken without waiting for the holder
LockNoWait(g) ==
    /\ calls[g].pc = "lock"
    /\ farmer' = [farmer EXCEPT !.mu = g]
    /\ calls' = [calls EXCEPT ![g].pc = IF calls[g].op = "Onboard" THEN "o74" ELSE "u102"]
    /\ UNCHANGED <<entry, hexStr, data, st, vi, peer, shown, wins>>

\* f.mu.Lock() (lines 71, 99): waits until no goroutine holds the mutex
Lock(g) ==
    /\ calls[g].pc = "lock"
    /\ farmer.mu = 0
    /\ farmer' = [farmer EXCEPT !.mu = g]
    /\ calls' = [calls EXCEPT ![g].pc = IF calls[g].op = "Onboard" THEN "o74" ELSE "u102"]
    /\ UNCHANGED <<entry, hexStr, data, st, vi, peer, shown, wins>>

\* Onboard lines 74-76
OnboardCheck(g) ==
    /\ calls[g].pc = "o74"
    /\ IF farmer.onboarded
       THEN ReturnLocked(g, errorsNew("farmer is already onboarded"))
       ELSE calls' = [calls EXCEPT ![g].pc = "o78"]
    /\ UNCHANGED <<entry, hexStr, data, st, vi, peer, shown, farmer, wins>>

\* Onboard line 78
OnboardSet(g) ==
    /\ calls[g].pc = "o78"
    /\ farmer' = [farmer EXCEPT !.onboarded = TRUE]
    /\ calls' = [calls EXCEPT ![g].pc = "o79", ![g].wrote = TRUE]
    /\ UNCHANGED <<entry, hexStr, data, st, vi, peer, shown, wins>>

\* Onboard lines 79-80
OnboardEnable(g) ==
    /\ calls[g].pc = "o79"
    /\ farmer' = [farmer EXCEPT !.config.Enabled = TRUE]
    /\ calls' = [calls EXCEPT ![g].pc = "unlock", ![g].ret = Nil, ![g].wrote = TRUE]
    /\ UNCHANGED <<entry, hexStr, data, st, vi, peer, shown, wins>>

\* UpdateConfig lines 102-104
UpdateCheck(g) ==
    /\ calls[g].pc = "u102"
    /\ IF ~farmer.onboarded
       THEN ReturnLocked(g, errorsNew("farmer must be onboarded before updating config"))
       ELSE calls' = [calls EXCEPT ![g].pc = "u105"]
    /\ UNCHANGED <<entry, hexStr, data, st, vi, peer, shown, farmer, wins>>

\* UpdateConfig lines 105-106
UpdateSet(g) ==
    /\ calls[g].pc = "u105"
    /\ farmer' = [farmer EXCEPT !.config = calls[g].config]
    /\ calls' = [calls EXCEPT ![g].pc = "unlock", ![g].ret = Nil, ![g].wrote = TRUE]
    /\ UNCHANGED <<entry, hexStr, data, st, vi, peer, shown, wins>>

\* the deferred f.mu.Unlock() (lines 72, 100), after which the call has
\* returned; an Onboard that returns nil is counted (up to 2)
Unlock(g) ==
    /\ calls[g].pc = "unlock"
    /\ farmer' = [farmer EXCEPT !.mu = 0]
    /\ calls' = [calls EXCEPT ![g].pc = "returned"]
    /\ wins' = IF calls[g].op = "Onboard" /\ calls[g].ret = Nil /\ wins < 2
               THEN wins + 1 ELSE wins
    /\ UNCHANGED <<entry, hexStr, data, st, vi, peer, shown>>

NextFarmer ==
    \E g \in Goroutines :
        \/ CallOnboard(g)
        \/ OnboardValidate(g)
        \/ CallUpdateConfig(g)
        \/ Lock(g)
        \/ OnboardCheck(g)
        \/ OnboardSet(g)
        \/ OnboardEnable(g)
        \/ UpdateCheck(g)
        \/ UpdateSet(g)
        \/ Unlock(g)

SpecFarmer == InitFarmer /\ [][NextFarmer]_vars

\* goroutine g's call has returned
Back(g) == calls[g].pc = "returned"

\* goroutine g's call returns in this step
Returns(g) == calls[g].pc \notin {"idle", "returned"} /\ calls'[g].pc = "returned"

\* C30: on one Farmer, under every interleaving of Onboard and UpdateConfig
\* calls, at most one Onboard call ever returns nil, and every Onboard call with
\* a valid paystring that returns once one has, or loses to it, returns "farmer
\* is already onboarded"; onboarded never goes from true back to false;
\* UpdateConfig returns nil only once an Onboard call has returned nil; and a
\* call that returns an error has left onboarded and config as they were.
C30_OnboardOnce ==
    /\ [](wins <= 1)
    /\ [](\A g \in Goroutines :
            (Back(g) /\ calls[g].op = "Onboard"
                /\ ValidatePaystring(calls[g].paystring) = Nil /\ calls[g].ret # Nil)
               => calls[g].ret = errorsNew("farmer is already onboarded"))
    /\ [](\A g \in Goroutines :
            (Back(g) /\ calls[g].op = "UpdateConfig" /\ calls[g].ret = Nil)
               => wins >= 1 /\ farmer.onboarded)
    /\ [](\A g \in Goroutines : (Back(g) /\ calls[g].ret # Nil) => ~calls[g].wrote)
    /\ [][farmer.onboarded => farmer'.onboarded]_vars
    /\ [][\A g \in Goroutines :
            (Returns(g) /\ calls[g].op = "Onboard"
                /\ ValidatePaystring(calls[g].paystring) = Nil)
               => /\ calls'[g].ret = Nil <=> wins = 0
                  /\ calls'[g].ret = Nil => wins' = 1]_vars
    /\ [][\A g \in Goroutines :
            (calls'[g] # calls[g] /\ calls'[g].pc \in {"unlock", "returned"}
                /\ calls'[g].ret # Nil)
               => farmer'.onboarded = farmer.onboarded /\ farmer'.config = farmer.config]_vars
    /\ [][\A g \in Goroutines :
            (farmer'.onboarded # farmer.onboarded \/ farmer'.config # farmer.config)
               => farmer.mu \in Goroutines /\ calls[farmer.mu].pc \in {"o78", "o79", "u105"}]_vars

\* an Onboard call has returned nil, a later or losing Onboard call with a
\* valid paystring has returned "farmer is already onboarded", and an
\* UpdateConfig call on the same Farmer has returned nil
C30_Witness ==
    /\ entry = "Farmer"
    /\ wins = 1
    /\ \E g, h \in Goroutines :
         /\ Back(g) /\ calls[g].op = "Onboard"
         /\ calls[g].ret = errorsNew("farmer is already onboarded")
         /\ Back(h) /\ calls[h].op = "UpdateConfig" /\ calls[h].ret = Nil
         /\ farmer.config = calls[h].config

\* an UpdateConfig call has returned its error while another goroutine is
\* inside Onboard, between lines 78 and 80
C30_WitnessRace ==
    \E g, h \in Goroutines :
        /\ Back(g) /\ calls[g].op = "UpdateConfig" /\ calls[g].ret # Nil
        /\ calls[h].pc \in {"o74", "o78", "o79"}
====
